---- MODULE Spec2Model ----
(***************************************************************************)
(* A model of sophia-who, the holon identity manager: the HOLON.md codec   *)
(* (WriteHolonMD / ParseFrontmatter), the tree scanner (ScanAllWithPaths), *)
(* the resolver (FindByUUID), the aggregated CLI listing (RunList) and the *)
(* three RPCs (CreateIdentity, ShowIdentity, ListIdentities).              *)
(*                                                                         *)
(* A Go string is a sequence of characters, each character a one-element   *)
(* TLA+ string; positions are 1-based, so Go's index i is position i+1 and *)
(* Go's "not found" (-1) is position 0.                                    *)
(***************************************************************************)
EXTENDS Naturals, Integers, Sequences, FiniteSets, TLC

VARIABLES
    rec,      \* codec: the Identity handed to WriteHolonMD
    content,  \* codec: the bytes of the file under test
    dec,      \* codec: the last result of ParseFrontmatter
    cpc,      \* codec: "init" | "written" | "parsed"
    fs,       \* the filesystem: place |-> directory or file
    issued,   \* the number of ids identity.New has issued
    walk,     \* the bulk scan in progress: what WalkDir has left to visit
              \* and the variables its callback has captured
    out,      \* the call in progress or just returned, and what it returned
    created   \* the response of the last CreateIdentity that succeeded

codecVars == <<rec, content, dec, cpc>>
diskVars == <<fs, issued, walk, out, created>>
vars == <<rec, content, dec, cpc, fs, issued, walk, out, created>>

--------------------------------------------------------------------------
(* Characters *)

NL == "\n"
DQ == "\""
BS == "\\"
\* One byte that is not valid UTF-8 on its own (0xFF), and the code point
\* U+00FF, which is what a YAML double-quoted "\xff" denotes.
BAD == "0xFF"
UFF == "U+00FF"

--------------------------------------------------------------------------
(* strings package *)

MatchAt(s, p, i) ==
    /\ i + Len(p) - 1 <= Len(s)
    /\ \A k \in 1..Len(p) : s[i + k - 1] = p[k]

\* The least element of a non-empty set of numbers.
Min(S) == CHOOSE x \in S : \A y \in S : x <= y

\* The position of the last occurrence of p in s, 0 if none.
LastIndex(s, p) ==
    LET hits == {i \in 1..(Len(s) + 1 - Len(p)) : MatchAt(s, p, i)}
    IN  IF hits = {} THEN 0 ELSE CHOOSE x \in hits : \A y \in hits : y <= x

\* strings.Index: the position of the first occurrence of p in s, 0 if none.
Index(s, p) ==
    LET hits == {i \in 1..(Len(s) + 1 - Len(p)) : MatchAt(s, p, i)}
    IN  IF hits = {} THEN 0 ELSE Min(hits)

HasPrefix(s, p) == Len(p) <= Len(s) /\ MatchAt(s, p, 1)

--------------------------------------------------------------------------
(* Identity *)

StrFields ==
    {"UUID", "GivenName", "FamilyName", "Motto", "Composer", "Clade",
     "Status", "Born", "Reproduction", "GeneratedBy", "Lang", "ProtoStatus"}

SliceFields == {"Parents", "Aliases"}

\* A Go slice: nil, or a (possibly empty) sequence of strings.
NilSlice == [nil |-> TRUE, items |-> <<>>]
Slice(ss) == [nil |-> FALSE, items |-> ss]

\* Identity{}: the zero value.
ZeroIdentity ==
    [UUID |-> <<>>, GivenName |-> <<>>, FamilyName |-> <<>>, Motto |-> <<>>,
     Composer |-> <<>>, Clade |-> <<>>, Status |-> <<>>, Born |-> <<>>,
     Parents |-> NilSlice, Reproduction |-> <<>>, Aliases |-> NilSlice,
     GeneratedBy |-> <<>>, Lang |-> <<>>, ProtoStatus |-> <<>>]

--------------------------------------------------------------------------
(* WriteHolonMD: holonTemplate and its functions *)

TplUUID ==
    <<"-","-","-",NL,"#"," ","H","o","l","o","n"," ","I","d","e","n","t",
      "i","t","y"," ","v","1",NL,"u","u","i","d",":"," ">>
TplGivenName ==
    <<NL,"g","i","v","e","n","_","n","a","m","e",":"," ">>
TplFamilyName ==
    <<NL,"f","a","m","i","l","y","_","n","a","m","e",":"," ">>
TplMotto ==
    <<NL,"m","o","t","t","o",":"," ">>
TplComposer ==
    <<NL,"c","o","m","p","o","s","e","r",":"," ">>
TplClade ==
    <<NL,"c","l","a","d","e",":"," ">>
TplStatus ==
    <<NL,"s","t","a","t","u","s",":"," ">>
TplBorn ==
    <<NL,"b","o","r","n",":"," ">>
TplParents ==
    <<NL,NL,"#"," ","L","i","n","e","a","g","e",NL,"p","a","r","e","n","t",
      "s",":"," ","[">>
TplReproduction ==
    <<"]",NL,"r","e","p","r","o","d","u","c","t","i","o","n",":"," ">>
TplAliases ==
    <<NL,NL,"#"," ","O","p","t","i","o","n","a","l",NL,"a","l","i","a","s",
      "e","s",":"," ","[">>
TplGeneratedBy ==
    <<"]",NL,NL,"#"," ","M","e","t","a","d","a","t","a",NL,"g","e","n","e",
      "r","a","t","e","d","_","b","y",":"," ">>
TplLang ==
    <<NL,"l","a","n","g",":"," ">>
TplProtoStatus ==
    <<NL,"p","r","o","t","o","_","s","t","a","t","u","s",":"," ">>
TplBodyTitle ==
    <<NL,"-","-","-",NL,NL,"#"," ">>
TplBodyMotto ==
    <<NL,NL,">"," ","*",DQ>>
TplBodyTail ==
    <<DQ,"*",NL,NL,"#","#"," ","D","e","s","c","r","i","p","t","i","o","n",
      NL,NL,"<","D","e","s","c","r","i","b","e"," ","w","h","a","t"," ","t",
      "h","i","s"," ","h","o","l","o","n"," ","d","o","e","s",".",">",NL,NL,
      "#","#"," ","I","n","t","r","o","s","p","e","c","t","i","o","n"," ",
      "N","o","t","e","s",NL,NL,"<","A","n","y"," ","a","s","s","u","m","p",
      "t","i","o","n","s"," ","o","r"," ","a","m","b","i","g","u","i","t",
      "i","e","s"," ","n","o","t","e","d"," ","d","u","r","i","n","g"," ",
      "c","r","e","a","t","i","o","n",".",">",NL>>
Key_uuid == <<"u","u","i","d">>
Key_given_name == <<"g","i","v","e","n","_","n","a","m","e">>
Key_family_name == <<"f","a","m","i","l","y","_","n","a","m","e">>
Key_motto == <<"m","o","t","t","o">>
Key_composer == <<"c","o","m","p","o","s","e","r">>
Key_clade == <<"c","l","a","d","e">>
Key_status == <<"s","t","a","t","u","s">>
Key_born == <<"b","o","r","n">>
Key_parents == <<"p","a","r","e","n","t","s">>
Key_reproduction == <<"r","e","p","r","o","d","u","c","t","i","o","n">>
Key_aliases == <<"a","l","i","a","s","e","s">>
Key_generated_by == <<"g","e","n","e","r","a","t","e","d","_","b","y">>
Key_lang == <<"l","a","n","g">>
Key_proto_status == <<"p","r","o","t","o","_","s","t","a","t","u","s">>

\* QuoteChar with the verb %s between quotes in place of %q: nothing is
\* escaped.
QuoteCharVerbatim(c) == <<c>>

\* strconv.Quote on one character (fmt's %q): the quote and the backslash
\* are escaped, a newline is written \n, an invalid byte \xNN, and a
\* printable character is copied.
QuoteChar(c) ==
    IF c = DQ \/ c = BS THEN <<BS, c>>
    ELSE IF c = NL THEN <<BS, "n">>
    ELSE IF c = BAD THEN <<BS, "x", "f", "f">>
    ELSE <<c>>

RECURSIVE QuoteFrom(_, _)
QuoteFrom(s, i) ==
    IF i > Len(s) THEN <<>> ELSE QuoteChar(s[i]) \o QuoteFrom(s, i + 1)

\* tmplFuncs["quote"]
Quote(s) == <<DQ>> \o QuoteFrom(s, 1) \o <<DQ>>

RECURSIVE JoinQuotedFrom(_, _)
JoinQuotedFrom(ss, i) ==
    IF i > Len(ss) THEN <<>>
    ELSE (IF i > 1 THEN <<",", " ">> ELSE <<>>)
         \o Quote(ss[i]) \o JoinQuotedFrom(ss, i + 1)

\* tmplFuncs["joinQuoted"]: a nil slice ranges over nothing.
JoinQuoted(sl) == JoinQuotedFrom(sl.items, 1)

\* The bytes WriteHolonMD writes for id: holonTemplate executed on id.
Render(id) ==
    TplUUID \o Quote(id.UUID)
    \o TplGivenName \o Quote(id.GivenName)
    \o TplFamilyName \o Quote(id.FamilyName)
    \o TplMotto \o Quote(id.Motto)
    \o TplComposer \o Quote(id.Composer)
    \o TplClade \o Quote(id.Clade)
    \o TplStatus \o id.Status
    \o TplBorn \o Quote(id.Born)
    \o TplParents \o JoinQuoted(id.Parents)
    \o TplReproduction \o Quote(id.Reproduction)
    \o TplAliases \o JoinQuoted(id.Aliases)
    \o TplGeneratedBy \o Quote(id.GeneratedBy)
    \o TplLang \o Quote(id.Lang)
    \o TplProtoStatus \o id.ProtoStatus
    \o TplBodyTitle \o id.GivenName \o <<" ">> \o id.FamilyName
    \o TplBodyMotto \o id.Motto
    \o TplBodyTail

--------------------------------------------------------------------------
(* yaml.Unmarshal(yamlBlock, &id)                                          *)
(*                                                                         *)
(* The decoder of gopkg.in/yaml.v3 on the block grammar that holonTemplate *)
(* and the test fixtures write: one "key: value" per line at column 0,     *)
(* comment and blank lines, a value that is empty, a plain scalar, a       *)
(* double-quoted scalar closed on its line, or a flow sequence of such     *)
(* scalars.  Unknown keys are ignored, a repeated key is an error, a null  *)
(* leaves a string field untouched.                                        *)

RECURSIVE SkipSpaces(_, _, _)
SkipSpaces(s, i, hi) ==
    IF i > hi \/ s[i] # " " THEN i ELSE SkipSpaces(s, i + 1, hi)

\* The end of the line that starts at i: the position before the next NL.
LineEnd(s, i) ==
    LET nls == {k \in i..Len(s) : s[k] = NL}
    IN  IF nls = {} THEN Len(s) ELSE Min(nls) - 1

\* The first ':' of s[lo..hi] that ends a key (followed by a space or the
\* end of the line), 0 if none.
RECURSIVE KeyColon(_, _, _)
KeyColon(s, i, hi) ==
    IF i > hi THEN 0
    ELSE IF s[i] = ":" /\ (i = hi \/ s[i + 1] = " ") THEN i
    ELSE KeyColon(s, i + 1, hi)

\* What a two-digit \x escape denotes: the code point, not the byte.
HexRune(h1, h2) == IF h1 = "f" /\ h2 = "f" THEN UFF ELSE ""

\* A double-quoted scalar whose opening quote is before position i:
\* [ok, str, next], next the position after the closing quote.
RECURSIVE ScanQuoted(_, _, _, _)
ScanQuoted(s, i, hi, acc) ==
    IF i > hi THEN [ok |-> FALSE, str |-> <<>>, next |-> i]
    ELSE IF s[i] = DQ THEN [ok |-> TRUE, str |-> acc, next |-> i + 1]
    ELSE IF s[i] # BS THEN ScanQuoted(s, i + 1, hi, Append(acc, s[i]))
    ELSE IF i + 1 > hi THEN [ok |-> FALSE, str |-> <<>>, next |-> i]
    ELSE IF s[i + 1] = "n" THEN ScanQuoted(s, i + 2, hi, Append(acc, NL))
    ELSE IF s[i + 1] = DQ \/ s[i + 1] = BS
         THEN ScanQuoted(s, i + 2, hi, Append(acc, s[i + 1]))
    ELSE IF s[i + 1] = "x" /\ i + 3 <= hi /\ HexRune(s[i + 2], s[i + 3]) # ""
         THEN ScanQuoted(s, i + 4, hi,
                         Append(acc, HexRune(s[i + 2], s[i + 3])))
    ELSE [ok |-> FALSE, str |-> <<>>, next |-> i]

\* After a value only blanks, or blanks and a comment, may follow.
TrailingOK(s, i, hi) ==
    LET j == SkipSpaces(s, i, hi)
    IN  j > hi \/ (j > i /\ s[j] = "#")

\* The items of a flow sequence whose '[' is before position i:
\* [ok, items, next].
RECURSIVE ScanFlowSeq(_, _, _, _)
ScanFlowSeq(s, i, hi, acc) ==
    LET j == SkipSpaces(s, i, hi)
    IN  IF j > hi THEN [ok |-> FALSE, items |-> <<>>, next |-> j]
        ELSE IF s[j] = "]" THEN [ok |-> TRUE, items |-> acc, next |-> j + 1]
        ELSE IF s[j] # DQ THEN [ok |-> FALSE, items |-> <<>>, next |-> j]
        ELSE LET q == ScanQuoted(s, j + 1, hi, <<>>)
                 k == SkipSpaces(s, q.next, hi)
             IN  IF ~q.ok \/ k > hi
                 THEN [ok |-> FALSE, items |-> <<>>, next |-> k]
                 ELSE IF s[k] = ","
                 THEN ScanFlowSeq(s, k + 1, hi, Append(acc, q.str))
                 ELSE IF s[k] = "]"
                 THEN [ok |-> TRUE, items |-> Append(acc, q.str),
                       next |-> k + 1]
                 ELSE [ok |-> FALSE, items |-> <<>>, next |-> k]

\* The end of a plain scalar that starts at i: it stops before a comment
\* (a '#' after a blank) and loses its trailing blanks.
RECURSIVE PlainEnd(_, _, _, _)
PlainEnd(s, i, hi, last) ==
    IF i > hi THEN last
    ELSE IF s[i] = " " THEN
         IF i < hi /\ s[i + 1] = "#" THEN last
         ELSE PlainEnd(s, i + 1, hi, last)
    ELSE PlainEnd(s, i + 1, hi, i)

\* The plain scalars that resolve to !!null.
NullWords ==
    {<<"~">>, <<"n","u","l","l">>, <<"N","u","l","l">>, <<"N","U","L","L">>}

YamlNull == [err |-> FALSE, kind |-> "null", str |-> <<>>, items |-> <<>>]
YamlBad == [err |-> TRUE, kind |-> "null", str |-> <<>>, items |-> <<>>]

\* The node of the value text s[i..hi].
ParseValue(s, i, hi) ==
    LET j == SkipSpaces(s, i, hi)
    IN  IF j > hi \/ s[j] = "#" THEN YamlNull
        ELSE IF s[j] = DQ THEN
             LET q == ScanQuoted(s, j + 1, hi, <<>>)
             IN  IF q.ok /\ TrailingOK(s, q.next, hi)
                 THEN [YamlNull EXCEPT !.kind = "str", !.str = q.str]
                 ELSE YamlBad
        ELSE IF s[j] = "[" THEN
             LET q == ScanFlowSeq(s, j + 1, hi, <<>>)
             IN  IF q.ok /\ TrailingOK(s, q.next, hi)
                 THEN [YamlNull EXCEPT !.kind = "seq", !.items = q.items]
                 ELSE YamlBad
        ELSE LET text == SubSeq(s, j, PlainEnd(s, j, hi, j))
             IN  IF text \in NullWords THEN YamlNull
                 ELSE [YamlNull EXCEPT !.kind = "str", !.str = text]

\* The Identity field a key names through its yaml tag, "" for no field.
FieldOf(key) ==
    IF key = Key_uuid THEN "UUID"
    ELSE IF key = Key_given_name THEN "GivenName"
    ELSE IF key = Key_family_name THEN "FamilyName"
    ELSE IF key = Key_motto THEN "Motto"
    ELSE IF key = Key_composer THEN "Composer"
    ELSE IF key = Key_clade THEN "Clade"
    ELSE IF key = Key_status THEN "Status"
    ELSE IF key = Key_born THEN "Born"
    ELSE IF key = Key_parents THEN "Parents"
    ELSE IF key = Key_reproduction THEN "Reproduction"
    ELSE IF key = Key_aliases THEN "Aliases"
    ELSE IF key = Key_generated_by THEN "GeneratedBy"
    ELSE IF key = Key_lang THEN "Lang"
    ELSE IF key = Key_proto_status THEN "ProtoStatus"
    ELSE ""

\* One mapping entry decoded into the struct: acc is [err, id, seen].
Assign(acc, key, v) ==
    LET f == FieldOf(key)
    IN  IF v.err \/ key \in acc.seen THEN [acc EXCEPT !.err = TRUE]
        ELSE LET a == [acc EXCEPT !.seen = @ \cup {key}]
             IN  IF f \in StrFields THEN
                      IF v.kind = "str" THEN [a EXCEPT !.id[f] = v.str]
                      ELSE IF v.kind = "null" THEN a
                      ELSE [a EXCEPT !.err = TRUE]
                 ELSE IF f \in SliceFields THEN
                      IF v.kind = "seq"
                      THEN [a EXCEPT !.id[f] = Slice(v.items)]
                      ELSE IF v.kind = "null"
                      THEN [a EXCEPT !.id[f] = NilSlice]
                      ELSE [a EXCEPT !.err = TRUE]
                 ELSE a

\* The line s[lo..hi] of the block.
ParseLine(s, lo, hi, acc) ==
    LET j == SkipSpaces(s, lo, hi)
        k == KeyColon(s, lo, hi)
    IN  IF j > hi \/ s[j] = "#" THEN acc
        ELSE IF j > lo \/ k = 0 \/ k = lo THEN [acc EXCEPT !.err = TRUE]
        ELSE Assign(acc, SubSeq(s, lo, k - 1), ParseValue(s, k + 1, hi))

RECURSIVE YamlLines(_, _, _)
YamlLines(s, i, acc) ==
    IF acc.err \/ i > Len(s) THEN acc
    ELSE LET hi == LineEnd(s, i)
         IN  YamlLines(s, hi + 2, ParseLine(s, i, hi, acc))

\* yaml.Unmarshal into a zero Identity: [err, id].  The reader rejects
\* input that is not valid UTF-8 before any line is parsed.
YamlUnmarshal(block) ==
    IF \E i \in 1..Len(block) : block[i] = BAD
    THEN [err |-> TRUE, id |-> ZeroIdentity]
    ELSE LET r == YamlLines(block, 1,
                            [err |-> FALSE, id |-> ZeroIdentity, seen |-> {}])
         IN  [err |-> r.err, id |-> r.id]

--------------------------------------------------------------------------
(* ParseFrontmatter *)

Delim == <<"-", "-", "-">>

ErrNoFrontmatter == "no YAML frontmatter found"
ErrUnclosed == "unclosed YAML frontmatter"
ErrYaml == "YAML parse error"

ParseFail(e) == [err |-> e, id |-> ZeroIdentity, body |-> <<>>]

\* A decoder that takes a block without a closing delimiter to run to
\* the end of the file.
ParseUnclosedAsBlock(data) ==
    IF ~HasPrefix(data, Delim) THEN ParseFail(ErrNoFrontmatter)
    ELSE LET rest == SubSeq(data, 4, Len(data))
             end == Index(rest, <<NL>> \o Delim)
             y == YamlUnmarshal(SubSeq(rest, 1, IF end = 0 THEN Len(rest)
                                                ELSE end - 1))
         IN  IF y.err THEN ParseFail(ErrYaml)
             ELSE [err |-> "", id |-> y.id,
                   body |-> IF end = 0 THEN <<>>
                            ELSE SubSeq(rest, end + 4, Len(rest))]

\* [err, id, body]; err = "" is Go's nil error.
ParseFrontmatter(data) ==
    IF ~HasPrefix(data, Delim) THEN ParseFail(ErrNoFrontmatter)
    ELSE LET rest0 == SubSeq(data, 4, Len(data))
             rest == IF Len(rest0) > 0 /\ rest0[1] = NL
                     THEN SubSeq(rest0, 2, Len(rest0)) ELSE rest0
             end == Index(rest, <<NL>> \o Delim)
         IN  IF end = 0 THEN ParseFail(ErrUnclosed)
             ELSE LET yamlBlock == SubSeq(rest, 1, end - 1)
                      body == SubSeq(rest, end + 4, Len(rest))
                      y == YamlUnmarshal(yamlBlock)
                  IN  IF y.err THEN ParseFail(ErrYaml)
                      ELSE [err |-> "", id |-> y.id, body |-> body]

--------------------------------------------------------------------------
(* The filesystem, and path/filepath *)

\* The characters in byte order (os.ReadDir sorts entries by name).
CharOrder ==
    <<NL," ","!",DQ,"#","$","%","&","'","(",")","*","+",",","-",".","/","0",
      "1","2","3","4","5","6","7","8","9",":",";","<","=",">","?","@","A",
      "B","C","D","E","F","G","H","I","J","K","L","M","N","O","P","Q","R",
      "S","T","U","V","W","X","Y","Z","[",BS,"]","^","_","a","b","c",
      "d","e","f","g","h","i","j","k","l","m","n","o","p","q","r","s","t",
      "u","v","w","x","y","z","{","|","}","~",UFF,BAD>>

Rank(c) == CHOOSE i \in 1..Len(CharOrder) : CharOrder[i] = c

RECURSIVE LexLessFrom(_, _, _)
LexLessFrom(a, b, i) ==
    IF i > Len(b) THEN FALSE
    ELSE IF i > Len(a) THEN TRUE
    ELSE IF a[i] = b[i] THEN LexLessFrom(a, b, i + 1)
    ELSE Rank(a[i]) < Rank(b[i])

LexLess(a, b) == LexLessFrom(a, b, 1)

RECURSIVE SortNames(_)
SortNames(S) ==
    IF S = {} THEN <<>>
    ELSE LET m == CHOOSE x \in S : \A y \in S \ {x} : LexLess(x, y)
         IN  <<m>> \o SortNames(S \ {m})

HolonMD == <<"H","O","L","O","N",".","m","d">>
ReadmeMD == <<"R","E","A","D","M","E",".","m","d">>
DotHolon == <<".","h","o","l","o","n">>
DotSecret == <<".","s","e","c","r","e","t">>
Holons == <<"h","o","l","o","n","s">>
Cache == <<"c","a","c","h","e">>

\* A cleaned path: absolute, or relative to the working directory, and its
\* elements.  "." is [abs |-> FALSE, names |-> <<>>].
RelPath(ns) == [abs |-> FALSE, names |-> ns]
AbsPath(ns) == [abs |-> TRUE, names |-> ns]
Dot == RelPath(<<>>)

\* The working directory of the process and the home directory of the user.
CWD == << <<"w">> >>
HOME == << <<"h">> >>

\* The parent directory, the one element a cleaned relative path may
\* start with.
DotDot == <<".", ".">>

\* The place a path names: its elements from "/".
Loc(p) ==
    IF p.abs THEN p.names
    ELSE IF p.names # <<>> /\ p.names[1] = DotDot
    THEN SubSeq(CWD, 1, Len(CWD) - 1) \o Tail(p.names)
    ELSE CWD \o p.names

\* filepath.Join(p, name)
Join(p, name) == [p EXCEPT !.names = Append(@, name)]

\* filepath.Dir on a cleaned path
Dir(p) ==
    IF p.names = <<>> THEN p
    ELSE [p EXCEPT !.names = SubSeq(@, 1, Len(@) - 1)]

\* The name os.Lstat and a directory entry report for a path.
Base(p) ==
    IF p.names # <<>> THEN p.names[Len(p.names)]
    ELSE IF p.abs THEN <<"/">> ELSE <<".">>

RECURSIVE CommonLen(_, _, _)
CommonLen(a, b, i) ==
    IF i > Len(a) \/ i > Len(b) \/ a[i] # b[i] THEN i - 1
    ELSE CommonLen(a, b, i + 1)

\* filepath.Rel(base, targ) on cleaned paths: [err, up, names], the result
\* being up times ".." and then names.  It fails when only one of the two
\* is absolute.
Rel(base, targ) ==
    IF base.abs # targ.abs
    THEN [err |-> TRUE, up |-> 0, names |-> <<>>]
    ELSE LET c == CommonLen(base.names, targ.names, 1)
         IN  [err |-> FALSE, up |-> Len(base.names) - c,
              names |-> SubSeq(targ.names, c + 1, Len(targ.names))]

\* A filesystem maps the places that exist to a directory or a file;
\* readable is the permission to list the directory or read the file.
DirNode(r) == [kind |-> "dir", readable |-> r, data |-> <<>>]
FileNode(r, d) == [kind |-> "file", readable |-> r, data |-> d]

Exists(f, l) == l \in DOMAIN f
IsDir(f, l) == Exists(f, l) /\ f[l].kind = "dir"

\* The sequence s from its last element to its first.
Reversed(s) == [i \in 1..Len(s) |-> s[Len(s) + 1 - i]]

\* A ReadDir that lists the names from the last to the first.
ReadDirBackwards(f, l) ==
    Reversed(SortNames({m[Len(l) + 1] : m \in
        {x \in DOMAIN f : Len(x) = Len(l) + 1 /\ SubSeq(x, 1, Len(l)) = l}}))

\* os.ReadDir: the names in the directory at l, sorted.
ReadDir(f, l) ==
    SortNames({m[Len(l) + 1] : m \in
        {x \in DOMAIN f : Len(x) = Len(l) + 1 /\ SubSeq(x, 1, Len(l)) = l}})

--------------------------------------------------------------------------
(* filepath.WalkDir with the two callbacks of this package *)

\* A reportProgress that makes no report at the end of the scan.
ReportProgressUnforced(cb, force) ==
    IF cb.onProgress /\ cb.progressEvery > 0 /\ cb.scanned > 0
       /\ cb.scanned % cb.progressEvery = 0
    THEN [cb EXCEPT !.progress =
            Append(@, [ScannedFiles |-> cb.scanned, HolonsFound |-> cb.found])]
    ELSE cb

\* A reportProgress that reports after every file, whatever the interval.
ReportProgressEveryFile(cb, force) ==
    IF ~cb.onProgress THEN cb
    ELSE IF force \/ (cb.progressEvery > 0 /\ cb.scanned > 0)
    THEN [cb EXCEPT !.progress =
            Append(@, [ScannedFiles |-> cb.scanned, HolonsFound |-> cb.found])]
    ELSE cb

\* ScanAllWithPaths.reportProgress on the callback's captured variables
\* cb = [progressEvery, onProgress, scanned, found, emitted, progress]:
\* emitted and progress are the calls made to onFound and onProgress.
ReportProgress(cb, force) ==
    IF ~cb.onProgress THEN cb
    ELSE IF force \/ (cb.progressEvery > 0 /\ cb.scanned > 0
                      /\ cb.scanned % cb.progressEvery = 0)
    THEN [cb EXCEPT !.progress =
            Append(@, [ScannedFiles |-> cb.scanned, HolonsFound |-> cb.found])]
    ELSE cb

\* A scan that enters every directory.
SkipsNoDir(name) == FALSE

\* A scan that skips every directory whose name starts with a dot.
SkipsEveryDotDir(name) == HasPrefix(name, <<".">>)

\* A test that takes ".." for the parent directory and not for a hidden
\* one.
SkipsDirButParent(name) ==
    /\ name # <<".">> /\ name # <<".", ".">> /\ name # DotHolon
    /\ HasPrefix(name, <<".">>)

\* The hidden-directory test of the bulk scan.
SkipsDir(name) ==
    name # <<".">> /\ name # DotHolon /\ HasPrefix(name, <<".">>)

\* A scan that ends the walk at a HOLON.md it cannot read or decode.
ScanFileAbort(c, path, d, r) ==
    IF Base(path) # HolonMD THEN [ret |-> "nil", cb |-> c]
    ELSE IF ~d.readable \/ r.err # "" THEN [ret |-> "SkipAll", cb |-> c]
    ELSE [ret |-> "nil",
          cb |-> [c EXCEPT
                    !.found = @ + 1,
                    !.emitted = Append(@, [Identity |-> r.id,
                                           Path |-> path])]]

\* A scan that decodes every file it can read, whatever its name.
ScanFileAnyName(c, path, d, r) ==
    IF ~d.readable \/ r.err # ""
    THEN [ret |-> "nil", cb |-> c]
    ELSE [ret |-> "nil",
          cb |-> [c EXCEPT
                    !.found = @ + 1,
                    !.emitted = Append(@, [Identity |-> r.id,
                                           Path |-> path])]]

\* A scan that emits no record whose id it has emitted already.
ScanFileOncePerId(c, path, d, r) ==
    IF Base(path) # HolonMD \/ ~d.readable \/ r.err # ""
       \/ \E i \in 1..Len(c.emitted) : c.emitted[i].Identity.UUID = r.id.UUID
    THEN [ret |-> "nil", cb |-> c]
    ELSE [ret |-> "nil",
          cb |-> [c EXCEPT
                    !.found = @ + 1,
                    !.emitted = Append(@, [Identity |-> r.id,
                                           Path |-> path])]]

\* A scan that ends the walk at the first record it emits.
ScanFileStopAtFirst(c, path, d, r) ==
    IF Base(path) # HolonMD \/ ~d.readable \/ r.err # ""
    THEN [ret |-> "nil", cb |-> c]
    ELSE [ret |-> "SkipAll",
          cb |-> [c EXCEPT
                    !.found = @ + 1,
                    !.emitted = Append(@, [Identity |-> r.id,
                                           Path |-> path])]]

\* The scan function on a file, from the name test on: c holds the
\* captured variables after the count and its report, r is what
\* ParseFrontmatter makes of the file's bytes.
ScanFile(c, path, d, r) ==
    IF Base(path) # HolonMD \/ ~d.readable \/ r.err # ""
    THEN [ret |-> "nil", cb |-> c]
    ELSE [ret |-> "nil",
          cb |-> [c EXCEPT
                    !.found = @ + 1,
                    !.emitted = Append(@, [Identity |-> r.id,
                                           Path |-> path])]]

\* The function ScanAllWithPaths hands to WalkDir: d is the entry's node,
\* err whether WalkDir reports an error for the entry.
ScanFn(cb, path, d, err) ==
    IF err THEN [ret |-> "nil", cb |-> cb]
    ELSE IF d.kind = "dir" THEN
         [ret |-> IF SkipsDir(Base(path)) THEN "SkipDir" ELSE "nil",
          cb |-> cb]
    ELSE ScanFile(ReportProgress([cb EXCEPT !.scanned = @ + 1], FALSE),
                  path, d, ParseFrontmatter(d.data))

\* The empty string where a path is expected.
EmptyPath == [abs |-> FALSE, names |-> << <<>> >>]

\* A resolver that takes the whole id only.
FindFileExact(cb, path, r) ==
    IF r.err = "" /\ r.id.UUID = cb.target
    THEN [ret |-> "SkipAll", cb |-> [cb EXCEPT !.found = path]]
    ELSE [ret |-> "nil", cb |-> cb]

\* A resolver that matches nothing when the target is empty.
FindFileNamedTarget(cb, path, r) ==
    IF r.err = "" /\ cb.target # <<>>
       /\ (r.id.UUID = cb.target \/ HasPrefix(r.id.UUID, cb.target))
    THEN [ret |-> "SkipAll", cb |-> [cb EXCEPT !.found = path]]
    ELSE [ret |-> "nil", cb |-> cb]

\* A resolver that remembers the match and walks on.
FindFileLast(cb, path, r) ==
    IF r.err = "" /\ (r.id.UUID = cb.target
                      \/ HasPrefix(r.id.UUID, cb.target))
    THEN [ret |-> "nil", cb |-> [cb EXCEPT !.found = path]]
    ELSE [ret |-> "nil", cb |-> cb]

\* The resolver function on a HOLON.md it has read: r is what
\* ParseFrontmatter makes of the bytes.
FindFile(cb, path, r) ==
    IF r.err = "" /\ (r.id.UUID = cb.target
                      \/ HasPrefix(r.id.UUID, cb.target))
    THEN [ret |-> "SkipAll", cb |-> [cb EXCEPT !.found = path]]
    ELSE [ret |-> "nil", cb |-> cb]

\* The function FindByUUID hands to WalkDir: cb = [target, found].
FindFn(cb, path, d, err) ==
    IF err \/ d.kind = "dir" \/ Base(path) # HolonMD \/ ~d.readable
    THEN [ret |-> "nil", cb |-> cb]
    ELSE FindFile(cb, path, ParseFrontmatter(d.data))

Callback(kind, cb, path, d, err) ==
    IF kind = "scan" THEN ScanFn(cb, path, d, err)
    ELSE FindFn(cb, path, d, err)

\* WalkDir(root, fn) before its first call of fn: w = [kind, todo, cb],
\* todo the calls of fn still to make, in order, each [path, err].  A root
\* that os.Lstat cannot find is handed to fn with the error.
WalkStart(f, kind, root, cb) ==
    [kind |-> kind,
     todo |-> <<[path |-> root, err |-> ~Exists(f, Loc(root))]>>,
     cb |-> cb]

\* The entries of the directory at path, as WalkDir visits them.
RECURSIVE JoinAll(_, _, _)
JoinAll(path, names, i) ==
    IF i > Len(names) THEN <<>>
    ELSE <<[path |-> Join(path, names[i]), err |-> FALSE]>>
         \o JoinAll(path, names, i + 1)

\* The nil DirEntry fn is handed with the root that is not there.
NilEntry == [kind |-> "nil", readable |-> FALSE, data |-> <<>>]

\* The DirEntry of the call.
EntryAt(f, path) == IF Exists(f, Loc(path)) THEN f[Loc(path)] ELSE NilEntry

\* walkDir after its call of fn on e = [path, err] has returned r.
\* SkipAll ends the walk; after a call with an error, for a file, and for
\* a directory fn skips, the walk goes to the next entry; a directory
\* that cannot be listed is handed to fn again, with the error; any other
\* has its entries visited next.  (fn returns nil, SkipDir on a
\* directory, or SkipAll, never an error.)
WalkAfter(f, w, e, d, r) ==
    IF r.ret = "SkipAll" THEN [w EXCEPT !.todo = <<>>, !.cb = r.cb]
    ELSE IF e.err \/ d.kind # "dir" \/ r.ret = "SkipDir"
    THEN [w EXCEPT !.todo = Tail(@), !.cb = r.cb]
    ELSE IF ~d.readable
    THEN [w EXCEPT !.todo = <<[path |-> e.path, err |-> TRUE]>> \o Tail(@),
                   !.cb = r.cb]
    ELSE [w EXCEPT !.todo = JoinAll(e.path, ReadDir(f, Loc(e.path)), 1)
                            \o Tail(@),
                   !.cb = r.cb]

\* One call of fn by WalkDir/walkDir, and what the walk does next.
WalkStep(f, w) ==
    WalkAfter(f, w, Head(w.todo), EntryAt(f, Head(w.todo).path),
              Callback(w.kind, w.cb, Head(w.todo).path,
                       EntryAt(f, Head(w.todo).path), Head(w.todo).err))

RECURSIVE RunWalk(_, _)
RunWalk(f, w) == IF w.todo = <<>> THEN w ELSE RunWalk(f, WalkStep(f, w))

\* The variables ScanAllWithPaths declares before the walk.
ScanCb(progressEvery, onProgress) ==
    [progressEvery |-> IF progressEvery < 0 THEN 0 ELSE progressEvery,
     onProgress |-> onProgress,
     scanned |-> 0, found |-> 0, emitted |-> <<>>, progress |-> <<>>]

\* A scan that takes finding nothing for a failure.
ScanEndStrict(cb) ==
    [err |-> IF cb.found = 0 THEN "no holons found" ELSE "",
     cb |-> ReportProgress(cb, TRUE)]

\* ScanAllWithPaths after the walk: WalkDir has returned nil (fn never
\* returns an error), so the final report is made and nil returned.
ScanEnd(cb) == [err |-> "", cb |-> ReportProgress(cb, TRUE)]

\* ScanAllWithPaths(root, progressEvery, onFound, onProgress): [err, cb].
ScanAllWithPaths(f, root, progressEvery, onProgress) ==
    ScanEnd(RunWalk(f, WalkStart(f, "scan", root,
                                 ScanCb(progressEvery, onProgress))).cb)

\* The holons FindAllWithPaths has appended, s being what the scan
\* returned.
Appended(s) == [err |-> s.err, holons |-> s.cb.emitted]

\* FindAllWithPaths(root): [err, holons]
FindAllWithPaths(f, root) == Appended(ScanAllWithPaths(f, root, 0, FALSE))

RECURSIVE Identities(_, _)
Identities(located, i) ==
    IF i > Len(located) THEN <<>>
    ELSE <<located[i].Identity>> \o Identities(located, i + 1)

\* FindAll after FindAllWithPaths has returned r.
Unlocated(r) ==
    IF r.err # "" THEN [err |-> r.err, holons |-> <<>>]
    ELSE [err |-> "", holons |-> Identities(r.holons, 1)]

\* FindAll(root): [err, holons]
FindAll(f, root) == Unlocated(FindAllWithPaths(f, root))

HolonNotFound == <<"h","o","l","o","n"," ","n","o","t"," ","f","o","u","n","d",":"," ">>

\* FindByUUID after the walk, found being the path the callback has set.
FindResult(target, found) ==
    IF found = EmptyPath
    THEN [err |-> HolonNotFound \o target, path |-> EmptyPath]
    ELSE [err |-> <<>>, path |-> found]

\* FindByUUID(root, target): [err, path], err the text of the error and
\* <<>> for nil.
FindByUUID(f, root, target) ==
    FindResult(target,
               RunWalk(f, WalkStart(f, "find", root,
                                    [target |-> target,
                                     found |-> EmptyPath])).cb.found)

--------------------------------------------------------------------------
(* The list command *)

Spaces == {" ", NL, "\t"}

\* A trim that leaves the string as it is.
TrimNothing(s) == s

\* strings.TrimSpace
TrimSpace(s) ==
    LET keep == {i \in 1..Len(s) : s[i] \notin Spaces}
    IN  IF keep = {} THEN <<>>
        ELSE SubSeq(s, Min(keep), Min(keep) + Cardinality(
                 {i \in 1..Len(s) : \E a \in keep, b \in keep :
                                        a < i /\ i <= b}))

RECURSIVE JoinNames(_, _)
JoinNames(names, i) ==
    IF i > Len(names) THEN <<>>
    ELSE IF i = Len(names) THEN names[i]
    ELSE names[i] \o <<"/">> \o JoinNames(names, i + 1)

\* The text of a cleaned path, as the program holds it in a string.
PathString(p) ==
    IF p.abs THEN <<"/">> \o JoinNames(p.names, 1)
    ELSE IF p.names = <<>> THEN <<".">>
    ELSE JoinNames(p.names, 1)

\* The directory of the file as the scan names it, never made relative to
\* root.
dirOfHolon(root, holonPath) ==
    [abs |-> Dir(holonPath).abs, up |-> 0, names |-> Dir(holonPath).names]

\* relHolonDir(root, holonPath): the directory of the file relative to
\* root, as [abs, up, names] (up times ".." before names), or the directory
\* itself when filepath.Rel fails.
relHolonDir(root, holonPath) ==
    LET dir == Dir(holonPath)
        rel == Rel(root, dir)
    IN  IF rel.err THEN [abs |-> dir.abs, up |-> 0, names |-> dir.names]
        ELSE [abs |-> FALSE, up |-> rel.up, names |-> rel.names]

\* The interval RunList passes to ScanAllWithPaths.
ListProgressEvery == 500

\* A key that is the id of the record even when the id is empty.
DedupeKeyIdOnly(h) == h.Identity.UUID

\* The key under which the on-found function of scanAndPrint remembers a
\* record.
DedupeKey(h) ==
    IF h.Identity.UUID = <<>> THEN PathString(h.Path) ELSE h.Identity.UUID

\* printEntry: the line written for a record.
PrintedEntry(id, origin, path) ==
    [UUID |-> id.UUID,
     name |-> TrimSpace(id.GivenName \o <<" ">> \o id.FamilyName),
     origin |-> origin, clade |-> id.Clade, status |-> id.Status,
     path |-> path]

\* An on-found function that prints whatever it is given.
OnFoundAll(st, root, origin, dedupe, h) ==
    [st EXCEPT
        !.entries = Append(@, PrintedEntry(h.Identity, origin,
                                           relHolonDir(root, h.Path)))]

\* The on-found function of scanAndPrint on st = [seen, entries, progress];
\* dedupe tells whether the scan was given the localSeen map.
OnFound(st, root, origin, dedupe, h) ==
    IF dedupe /\ DedupeKey(h) \in st.seen THEN st
    ELSE [st EXCEPT
            !.seen = IF dedupe THEN @ \cup {DedupeKey(h)} ELSE @,
            !.entries = Append(@, PrintedEntry(h.Identity, origin,
                                               relHolonDir(root, h.Path)))]

RECURSIVE FoldFound(_, _, _, _, _, _)
FoldFound(st, root, origin, dedupe, hs, i) ==
    IF i > Len(hs) THEN st
    ELSE FoldFound(OnFound(st, root, origin, dedupe, hs[i]),
                   root, origin, dedupe, hs, i + 1)

\* The on-progress function of scanAndPrint over the reports of one scan:
\* the lines printProgress writes, as [label, scanned].
RECURSIVE FoldProgress(_, _, _, _)
FoldProgress(label, ps, i, lastReported) ==
    IF i > Len(ps) THEN <<>>
    ELSE IF ps[i].ScannedFiles = 0 \/ ps[i].ScannedFiles = lastReported
    THEN FoldProgress(label, ps, i + 1, lastReported)
    ELSE <<[label |-> label, scanned |-> ps[i].ScannedFiles]>>
         \o FoldProgress(label, ps, i + 1, ps[i].ScannedFiles)

\* scanAndPrint once the scan has made the calls of s.cb.emitted and
\* s.cb.progress.
Printed(st, root, scanLabel, origin, dedupe, s) ==
    [FoldFound(st, root, origin, dedupe, s.cb.emitted, 1) EXCEPT
        !.progress = @ \o FoldProgress(scanLabel, s.cb.progress, 1, 0)]

\* scanAndPrint(scanRoot, scanLabel, origin, dedupe)
scanAndPrint(f, st, root, scanRoot, scanLabel, origin, dedupe) ==
    Printed(st, root, scanLabel, origin, dedupe,
            ScanAllWithPaths(f, scanRoot, ListProgressEvery, TRUE))

\* holonCacheDir(): home is [ok, names], the answer of os.UserHomeDir.
holonCacheDir(home) ==
    IF home.ok THEN AbsPath(home.names \o <<DotHolon, Cache>>) ELSE EmptyPath

Local == "local"
Cached == "cached"

\* The scans with the one of root before the one of root/holons.
ListScansRootFirst(r, home) ==
    <<[root |-> r, label |-> "root", origin |-> Local, dedupe |-> TRUE],
      [root |-> Join(r, Holons), label |-> "local", origin |-> Local,
       dedupe |-> TRUE]>>
    \o IF holonCacheDir(home) # EmptyPath
       THEN <<[root |-> holonCacheDir(home), label |-> "cache",
               origin |-> Cached, dedupe |-> FALSE]>>
       ELSE <<>>

\* The scans of RunList, in order: root/holons and root, which share
\* localSeen, and the cache directory when there is one.
ListScans(r, home) ==
    <<[root |-> Join(r, Holons), label |-> "local", origin |-> Local,
       dedupe |-> TRUE],
      [root |-> r, label |-> "root", origin |-> Local, dedupe |-> TRUE]>>
    \o IF holonCacheDir(home) # EmptyPath
       THEN <<[root |-> holonCacheDir(home), label |-> "cache",
               origin |-> Cached, dedupe |-> FALSE]>>
       ELSE <<>>

RECURSIVE RunScans(_, _, _, _, _)
RunScans(f, st, r, scans, i) ==
    IF i > Len(scans) THEN st
    ELSE RunScans(f, scanAndPrint(f, st, r, scans[i].root, scans[i].label,
                                  scans[i].origin, scans[i].dedupe),
                  r, scans, i + 1)

\* What RunList has printed: st and whether "No holons found." was.
ListOutput(st) ==
    [seen |-> st.seen, entries |-> st.entries, progress |-> st.progress,
     empty |-> st.entries = <<>>]

\* filepath.Clean of the argument of RunList, EmptyPath being the empty
\* argument.
ListRoot(root) == IF root = EmptyPath THEN Dot ELSE root

\* RunList(root): [seen, entries, progress, empty]
RunList(f, root, home) ==
    ListOutput(RunScans(f, [seen |-> {}, entries |-> <<>>,
                            progress |-> <<>>],
                        ListRoot(root), ListScans(ListRoot(root), home), 1))

--------------------------------------------------------------------------
(* The show command *)

CannotRead == <<"c","a","n","n","o","t"," ","r","e","a","d"," ">>

\* RunShow once FindByUUID has returned r: [err, printed], printed being
\* what fmt.Println has written.
RunShowFound(f, r) ==
    IF r.err # <<>> THEN [err |-> r.err, printed |-> <<>>]
    ELSE IF ~Exists(f, Loc(r.path)) \/ IsDir(f, Loc(r.path))
            \/ ~f[Loc(r.path)].readable
    THEN [err |-> CannotRead \o PathString(r.path), printed |-> <<>>]
    ELSE [err |-> <<>>, printed |-> f[Loc(r.path)].data \o <<NL>>]

\* cli.RunShow(target)
RunShow(f, target) == RunShowFound(f, FindByUUID(f, Dot, target))

--------------------------------------------------------------------------
(* The gRPC service *)

Upper == <<"A","B","C","D","E","F","G","H","I","J","K","L","M",
           "N","O","P","Q","R","S","T","U","V","W","X","Y","Z">>
Lower == <<"a","b","c","d","e","f","g","h","i","j","k","l","m",
           "n","o","p","q","r","s","t","u","v","w","x","y","z">>

\* strings.ToLower
ToLower(s) ==
    [i \in 1..Len(s) |->
        IF \E k \in 1..Len(Upper) : Upper[k] = s[i]
        THEN Lower[CHOOSE k \in 1..Len(Upper) : Upper[k] = s[i]]
        ELSE s[i]]

\* strings.TrimSuffix
TrimSuffix(s, suf) ==
    IF Len(s) >= Len(suf) /\ SubSeq(s, Len(s) - Len(suf) + 1, Len(s)) = suf
    THEN SubSeq(s, 1, Len(s) - Len(suf))
    ELSE s

\* strings.ReplaceAll(s, old, new) for one-character old and new
ReplaceAll(s, old, new) ==
    [i \in 1..Len(s) |-> IF s[i] = old THEN new ELSE s[i]]

\* The map of cladeToString and stringToClade, as <<enum value, text>>.
CladeNames ==
    << <<"DETERMINISTIC_PURE", <<"d","e","t","e","r","m","i","n","i","s","t","i","c","/",
            "p","u","r","e">>>>,
       <<"DETERMINISTIC_STATEFUL", <<"d","e","t","e","r","m","i","n","i","s","t","i","c","/",
            "s","t","a","t","e","f","u","l">>>>,
       <<"DETERMINISTIC_IO_BOUND", <<"d","e","t","e","r","m","i","n","i","s","t","i","c","/",
            "i","o","_","b","o","u","n","d">>>>,
       <<"PROBABILISTIC_GENERATIVE", <<"p","r","o","b","a","b","i","l","i","s","t","i","c","/",
            "g","e","n","e","r","a","t","i","v","e">>>>,
       <<"PROBABILISTIC_PERCEPTUAL", <<"p","r","o","b","a","b","i","l","i","s","t","i","c","/",
            "p","e","r","c","e","p","t","u","a","l">>>>,
       <<"PROBABILISTIC_ADAPTIVE", <<"p","r","o","b","a","b","i","l","i","s","t","i","c","/",
            "a","d","a","p","t","i","v","e">>>> >>

\* The map of stringToStatus.
StatusNames ==
    << <<"DRAFT", <<"d","r","a","f","t">>>>,
       <<"STABLE", <<"s","t","a","b","l","e">>>>,
       <<"DEPRECATED", <<"d","e","p","r","e","c","a","t","e","d">>>>,
       <<"DEAD", <<"d","e","a","d">>>> >>

\* The map of reproductionToString and stringToReproduction.
ReproductionNames ==
    << <<"MANUAL", <<"m","a","n","u","a","l">>>>,
       <<"ASSISTED", <<"a","s","s","i","s","t","e","d">>>>,
       <<"AUTOMATIC", <<"a","u","t","o","m","a","t","i","c">>>>,
       <<"AUTOPOIETIC", <<"a","u","t","o","p","o","i","e","t","i","c">>>>,
       <<"BRED", <<"b","r","e","d">>>> >>

HolonNotFoundColon == <<"h","o","l","o","n"," ","n","o","t"," ","f","o","u","n","d",":">>
Draft == <<"d","r","a","f","t">>
SophiaWho == <<"s","o","p","h","i","a","-","w","h","o">>
Today == <<"2","0","2","6","-","0","1","-","0","1">>

\* m[e] of a Go map given as a table, with the value for a missing key.
EnumToText(table, e, missing) ==
    IF \E k \in 1..Len(table) : table[k][1] = e
    THEN table[CHOOSE k \in 1..Len(table) : table[k][1] = e][2]
    ELSE missing

TextToEnum(table, s, missing) ==
    IF \E k \in 1..Len(table) : table[k][2] = s
    THEN table[CHOOSE k \in 1..Len(table) : table[k][2] = s][1]
    ELSE missing

cladeToString(c) == EnumToText(CladeNames, c, CladeNames[1][2])
stringToClade(s) == TextToEnum(CladeNames, s, "CLADE_UNSPECIFIED")
stringToStatus(s) == TextToEnum(StatusNames, s, "STATUS_UNSPECIFIED")
reproductionToString(r) ==
    EnumToText(ReproductionNames, r, ReproductionNames[1][2])

\* A conversion that takes an unknown text for "manual", as
\* reproductionToString takes an unknown value.
stringToReproductionManual(s) ==
    TextToEnum(ReproductionNames, s, "MANUAL")

stringToReproduction(s) ==
    TextToEnum(ReproductionNames, s, "REPRODUCTION_UNSPECIFIED")

\* An id source that gives the same id every time.
SameUUID(n) == <<"u", "-", "1">>

\* The n-th value of uuid.New().String(): distinct from one call to the
\* next.
Digits == <<"1","2","3","4","5","6","7","8","9">>
NewUUID(n) == <<"u", "-", Digits[n]>>

\* A constructor that sets the id and no default.
NewBare(n) == [ZeroIdentity EXCEPT !.UUID = NewUUID(n)]

\* identity.New() on its n-th call
New(n) ==
    [ZeroIdentity EXCEPT
        !.UUID = NewUUID(n), !.Status = Draft, !.Born = Today,
        !.Parents = Slice(<<>>), !.GeneratedBy = SophiaWho,
        !.ProtoStatus = Draft]

toProto(id) ==
    [Uuid |-> id.UUID, GivenName |-> id.GivenName,
     FamilyName |-> id.FamilyName, Motto |-> id.Motto,
     Composer |-> id.Composer, Clade |-> stringToClade(id.Clade),
     Status |-> stringToStatus(id.Status), Born |-> id.Born,
     Parents |-> id.Parents,
     Reproduction |-> stringToReproduction(id.Reproduction),
     Aliases |-> id.Aliases, GeneratedBy |-> id.GeneratedBy,
     Lang |-> id.Lang, ProtoStatus |-> stringToStatus(id.ProtoStatus)]

\* os.MkdirAll(p): [err, fs].  It fails when an element of p is a file,
\* and then has made nothing, the elements before the file being there.
MkdirAll(f, p) ==
    LET l == Loc(p)
        pre == {SubSeq(l, 1, k) : k \in 0..Len(l)}
    IN  IF \E x \in pre : Exists(f, x) /\ ~IsDir(f, x)
        THEN [err |-> TRUE, fs |-> f]
        ELSE [err |-> FALSE,
              fs |-> [x \in DOMAIN f \cup pre |->
                        IF x \in DOMAIN f THEN f[x] ELSE DirNode(TRUE)]]

\* A writer that leaves a file that is there as it is.
WriteHolonMDKeepsExisting(f, id, path) ==
    IF IsDir(f, Loc(path)) \/ ~IsDir(f, Loc(Dir(path)))
    THEN [err |-> TRUE, fs |-> f]
    ELSE [err |-> FALSE,
          fs |-> [x \in DOMAIN f \cup {Loc(path)} |->
                    IF x \in DOMAIN f THEN f[x]
                    ELSE FileNode(TRUE, Render(id))]]

\* WriteHolonMD(id, path): [err, fs].  os.Create fails on a directory and
\* truncates a file that is there, which keeps its permissions.
WriteHolonMD(f, id, path) ==
    LET l == Loc(path)
    IN  IF IsDir(f, l) \/ ~IsDir(f, Loc(Dir(path)))
        THEN [err |-> TRUE, fs |-> f]
        ELSE [err |-> FALSE,
              fs |-> [x \in DOMAIN f \cup {l} |->
                        IF x # l THEN f[x]
                        ELSE FileNode(IF Exists(f, l) THEN f[l].readable
                                      ELSE TRUE,
                                      Render(id))]]

\* A response of the service: the status code, the message of the status,
\* and the fields of the response.
Response(code, text, arg, identity, path, raw) ==
    [code |-> code, msg |-> [text |-> text, arg |-> arg],
     Identity |-> identity, FilePath |-> path, RawContent |-> raw]

Failure(code, text, arg) ==
    Response(code, text, arg, toProto(ZeroIdentity), EmptyPath, <<>>)

\* What a call of CreateIdentity leaves: its response, the filesystem and
\* the number of ids issued.
Outcome(res, f, n) == [res |-> res, fs |-> f, issued |-> n]

\* The directory CreateIdentity derives from the names when the request
\* names none.
DefaultOutputDir(id) ==
    Join(RelPath(<<DotHolon>>),
         ReplaceAll(ToLower(id.GivenName \o <<"-">>
                            \o TrimSuffix(id.FamilyName, <<"?">>)),
                    " ", "-"))

\* The record CreateIdentity fills from the request.
Filled(id, req) ==
    [id EXCEPT
        !.GivenName = req.GivenName,
        !.FamilyName = req.FamilyName,
        !.Motto = req.Motto,
        !.Composer = req.Composer,
        !.Clade = cladeToString(req.Clade),
        !.Reproduction = reproductionToString(req.Reproduction),
        !.Lang = IF req.Lang # <<>> THEN req.Lang ELSE @,
        !.Aliases = IF Len(req.Aliases.items) > 0 THEN req.Aliases ELSE @]

\* CreateIdentity once WriteHolonMD has returned wr; made is the
\* filesystem MkdirAll has left.
CreateWritten(n, id, outputPath, made, wr) ==
    IF wr.err
    THEN Outcome(Failure("Internal", "write HOLON.md: %v",
                         PathString(outputPath)), made, n + 1)
    ELSE Outcome(Response("OK", "", <<>>, toProto(id), outputPath, <<>>),
                 wr.fs, n + 1)

\* CreateIdentity once MkdirAll has returned md.
CreateMade(f, n, id, outputDir, md) ==
    IF md.err
    THEN Outcome(Failure("Internal", "cannot create directory: %v",
                         PathString(outputDir)), f, n + 1)
    ELSE CreateWritten(n, id, Join(outputDir, HolonMD), md.fs,
                       WriteHolonMD(md.fs, id, Join(outputDir, HolonMD)))

\* CreateIdentity from the choice of the output directory on.
CreateIn(f, n, id, outputDir) ==
    CreateMade(f, n, id, outputDir, MkdirAll(f, outputDir))

\* The field of the request CreateIdentity refuses, "" when none.
Refused(req) ==
    IF TrimSpace(req.GivenName) = <<>> THEN "given_name is required"
    ELSE IF TrimSpace(req.FamilyName) = <<>> THEN "family_name is required"
    ELSE IF TrimSpace(req.Motto) = <<>> THEN "motto is required"
    ELSE IF TrimSpace(req.Composer) = <<>> THEN "composer is required"
    ELSE ""

\* Server.CreateIdentity, n ids having been issued before the call
CreateIdentity(f, n, req) ==
    IF Refused(req) # ""
    THEN Outcome(Failure("InvalidArgument", Refused(req), <<>>), f, n)
    ELSE CreateIn(f, n, Filled(New(n + 1), req),
                  IF req.OutputDir = EmptyPath
                  THEN DefaultOutputDir(Filled(New(n + 1), req))
                  ELSE req.OutputDir)

\* A test of the error that knows the text without a target only.
isIdentityNotFoundExact(err) == err = HolonNotFoundColon

isIdentityNotFound(err) ==
    err # <<>> /\ HasPrefix(ToLower(TrimSpace(err)), HolonNotFoundColon)

\* ShowIdentity once the file at path is read: p is what ParseFrontmatter
\* makes of data.
ShowParsed(path, data, p) ==
    IF p.err # ""
    THEN Failure("Internal", "parse HOLON.md: %v", <<>>)
    ELSE Response("OK", "", <<>>, toProto(p.id), path, data)

\* ShowIdentity once FindByUUID has returned r.
ShowFound(f, r) ==
    IF r.err # <<>>
    THEN IF isIdentityNotFound(r.err)
         THEN Failure("NotFound", "%s", r.err)
         ELSE Failure("Internal", "resolve holon by uuid: %v", r.err)
    ELSE IF ~f[Loc(r.path)].readable
    THEN Failure("Internal", "cannot read %s: %v", PathString(r.path))
    ELSE ShowParsed(r.path, f[Loc(r.path)].data,
                    ParseFrontmatter(f[Loc(r.path)].data))

\* Server.ShowIdentity
ShowIdentity(f, uuid) ==
    IF TrimSpace(uuid) = <<>>
    THEN Failure("InvalidArgument", "uuid is required", <<>>)
    ELSE ShowFound(f, FindByUUID(f, Dot, uuid))

\* A relative path taken from the working directory, whatever the root.
relativeToWorkingDir(rootDir, holonFilePath) ==
    relHolonDir(Dot, holonFilePath)

\* relativeHolonDir(rootDir, holonFilePath)
relativeHolonDir(rootDir, holonFilePath) ==
    relHolonDir(rootDir, holonFilePath)

RECURSIVE HolonEntries(_, _, _)
HolonEntries(rootDir, holons, i) ==
    IF i > Len(holons) THEN <<>>
    ELSE <<[Identity |-> toProto(holons[i].Identity), Origin |-> "local",
            RelativePath |-> relativeHolonDir(rootDir, holons[i].Path)]>>
         \o HolonEntries(rootDir, holons, i + 1)

\* The directory ListIdentities scans.
ListRootDir(reqRootDir) ==
    IF TrimSpace(PathString(reqRootDir)) # <<>> THEN reqRootDir ELSE Dot

\* ListIdentities once FindAllWithPaths has returned r.
Listed(rootDir, r) ==
    IF r.err # ""
    THEN [code |-> "Internal", msg |-> "scan identities: %v",
          Entries |-> <<>>]
    ELSE [code |-> "OK", msg |-> "",
          Entries |-> HolonEntries(rootDir, r.holons, 1)]

\* Server.ListIdentities: [code, msg, Entries]
ListIdentities(f, reqRootDir) ==
    Listed(ListRootDir(reqRootDir),
           FindAllWithPaths(f, ListRootDir(reqRootDir)))

--------------------------------------------------------------------------
(* The codec on its own: an Identity is written, the file is parsed *)

MaxLen == 2
MaxItems == 2

\* Strings over chars of length at most n.
Strings(chars, n) == UNION {[1..k -> chars] : k \in 0..n}

\* Free text: a letter, the characters the template quotes, the comment
\* and null markers of YAML, a blank, and a byte that is not UTF-8.
TextChars == {"a", DQ, BS, NL, "#", " ", "~", BAD}
Text == Strings(TextChars, MaxLen)

\* identity.Statuses
Statuses ==
    {<<"d","r","a","f","t">>,
     <<"s","t","a","b","l","e">>,
     <<"d","e","p","r","e","c","a","t","e","d">>,
     <<"d","e","a","d">>}

\* Values of the two fields the template writes unquoted.  No value holds
\* both a blank and a line break.
StatusText ==
    Statuses \cup Strings({"a", "~", "#", " ", BS, BAD}, MaxLen)
             \cup Strings({"a", "~", "#", NL, BS, BAD}, MaxLen)

Items == Strings(TextChars, 1)
Slices == {NilSlice} \cup {Slice(ss) : ss \in Strings(Items, MaxItems)}

\* The record of TestWriteHolonMDRoundTrip.
BaseIdentity ==
    [UUID |-> <<"u","-","1">>,
     GivenName |-> <<"R","o","u","n","d">>,
     FamilyName |-> <<"T","e","s","t","e","r">>,
     Motto |-> <<"m">>, Composer |-> <<"c">>,
     Clade |-> <<"p","r","o","b","a","b","i","l","i","s","t","i","c","/","g","e","n","e",
  "r","a","t","i","v","e">>,
     Status |-> <<"d","r","a","f","t">>,
     Born |-> <<"2","0","2","6","-","0","1","-","0","1">>,
     Parents |-> Slice(<<>>),
     Reproduction |-> <<"a","s","s","i","s","t","e","d">>,
     Aliases |-> Slice(<< <<"r","t">>, <<"r","o","u","n","d">> >>),
     GeneratedBy |-> <<"s","o","p","h","i","a","-","w","h","o">>,
     Lang |-> <<"g","o">>,
     ProtoStatus |-> <<"d","r","a","f","t">>]

QuotedFields == StrFields \ {"Status", "ProtoStatus"}

CodecRecords ==
    {[BaseIdentity EXCEPT ![f] = s] : f \in QuotedFields, s \in Text}
    \cup {[BaseIdentity EXCEPT ![f] = s] :
            f \in {"Status", "ProtoStatus"}, s \in StatusText}
    \cup {[BaseIdentity EXCEPT ![f] = sl] : f \in SliceFields, sl \in Slices}
    \cup {[f \in DOMAIN ZeroIdentity |->
             IF f \in QuotedFields THEN s ELSE ZeroIdentity[f]] : s \in Text}

NoParse == [err |-> "pending", id |-> ZeroIdentity, body |-> <<>>]

\* No filesystem, no scan, no call: the state of what a specification
\* leaves out.
NoFS == <<>>
NoWalk == [kind |-> "idle", todo |-> <<>>, cb |-> <<>>]
NoCall == [op |-> "none"]

CodecInit ==
    /\ rec \in CodecRecords
    /\ content = <<>>
    /\ dec = NoParse
    /\ cpc = "init"
    /\ fs = NoFS /\ issued = 0 /\ walk = NoWalk
    /\ out = NoCall /\ created = NoCall

\* WriteHolonMD(rec, path): the file holds the rendered template.
CodecWrite ==
    /\ cpc = "init"
    /\ content' = Render(rec)
    /\ cpc' = "written"
    /\ UNCHANGED <<rec, dec>>
    /\ UNCHANGED diskVars

\* ParseFrontmatter(os.ReadFile(path))
CodecParse ==
    /\ cpc = "written"
    /\ dec' = ParseFrontmatter(content)
    /\ cpc' = "parsed"
    /\ UNCHANGED <<rec, content>>
    /\ UNCHANGED diskVars

\* The texts ParseFrontmatter is given besides the files WriteHolonMD
\* writes: blocks that are mappings of the grammar above, blocks that are
\* no mapping, mappings yaml.Unmarshal refuses for a repeated key or a
\* value of the wrong type, what follows the closing delimiter, and texts
\* without an opening or without a closing delimiter.
GoodBlocks ==
    {<<"u","u","i","d",":"," ",DQ,"a",DQ>>,
     <<"u","u","i","d",":"," ",DQ,"a",DQ,NL,"s","t","a","t","u","s",":"," ",
       "d","r","a","f","t">>,
     <<>>,
     <<"#"," ","c">>,
     <<NL,"u","u","i","d",":"," ",DQ,"a",DQ,NL,"p","a","r","e","n","t","s",
       ":"," ","[",DQ,"p",DQ,"]">>}

BadBlocks ==
    {<<":"," ","b","r","o","k","e","n"," ","[","[">>,
     <<"x">>,
     <<"u","u","i","d",":"," ",DQ,"a">>,
     <<"p","a","r","e","n","t","s",":"," ","[">>,
     <<"u","u","i","d",":"," ",DQ,"a",DQ,NL,":"," ","b","r","o","k","e","n">>}

RefusedBlocks ==
    {<<"u","u","i","d",":"," ",DQ,"a",DQ,NL,"u","u","i","d",":"," ",DQ,"b",
       DQ>>,
     <<"u","u","i","d",":"," ",DQ,"a",DQ,NL,"p","a","r","e","n","t","s",":",
       " ",DQ,"p",DQ>>}

Tails ==
    {<<>>,
     <<NL>>,
     <<NL,"#"," ","T",NL,"b",NL>>,
     <<"k",":"," ","v",NL,"-","-","-",NL>>}

Unopened ==
    {<<>>,
     <<"#"," ","J","u","s","t"," ","m","a","r","k","d","o","w","n",NL,"N",
       "o"," ","f","r","o","n","t","m","a","t","t","e","r"," ","h","e","r",
       "e",".">>,
     <<"-","-">>,
     <<" ","-","-","-",NL,"u","u","i","d",":"," ",DQ,"a",DQ,NL,"-","-","-",
       NL>>,
     <<NL,"-","-","-",NL,"u","u","i","d",":"," ",DQ,"a",DQ,NL,"-","-","-",NL>>,
     <<"-","-"," ","-",NL,"u","u","i","d",":"," ",DQ,"a",DQ,NL,"-","-","-",
       NL>>}

Unclosed ==
    {<<"-","-","-">>,
     <<"-","-","-",NL>>,
     <<"-","-","-",NL,"u","u","i","d",":"," ",DQ,"a","b","c",DQ,NL,"s","t",
       "a","t","u","s",":"," ","d","r","a","f","t",NL>>,
     <<"-","-","-",NL,"u","u","i","d",":"," ",DQ,"a",DQ,NL,"-","-">>,
     <<"-","-","-","-","-","-">>,
     <<"-","-","-",NL,"-","-","-">>,
     <<"-","-","-",NL,"-","-","-",NL>>,
     <<"-","-","-","u","u","i","d",":"," ",DQ,"a",DQ,NL," ","-","-","-"," ">>}

\* A text with both delimiters: block between them, tail after them, the
\* opening delimiter on a line of its own or not.
Framed(nl, block, tail) ==
    Delim \o (IF nl THEN <<NL>> ELSE <<>>) \o block \o <<NL>> \o Delim \o tail

DecodeInputs ==
    Unopened \cup Unclosed
    \cup {Framed(nl, b, t) : nl \in BOOLEAN,
                             b \in GoodBlocks \cup BadBlocks \cup RefusedBlocks,
                             t \in Tails}

\* ParseFrontmatter on a text WriteHolonMD has not written, so that no
\* record goes with it.
CodecDecode ==
    /\ cpc = "init" /\ rec = ZeroIdentity
    /\ \E data \in DecodeInputs :
         /\ content' = data
         /\ dec' = ParseFrontmatter(data)
    /\ cpc' = "decoded"
    /\ UNCHANGED rec
    /\ UNCHANGED diskVars

CodecNext == CodecWrite \/ CodecParse \/ CodecDecode

CodecSpec == CodecInit /\ [][CodecNext]_vars

--------------------------------------------------------------------------
(* C1: the round trip WriteHolonMD -> ParseFrontmatter *)

ValidUTF8(str) == \A i \in 1..Len(str) : str[i] # BAD

\* A record the data model calls valid: text that is valid UTF-8 and the
\* two lifecycle fields empty or one of identity.Statuses.
C1_Valid(id) ==
    /\ \A f \in StrFields : ValidUTF8(id[f])
    /\ \A f \in SliceFields :
         \A i \in 1..Len(id[f].items) : ValidUTF8(id[f].items[i])
    /\ id.Status \in Statuses \cup {<<>>}
    /\ id.ProtoStatus \in Statuses \cup {<<>>}

\* Equal field by field, a sequence field compared by its elements (as
\* TestWriteHolonMDRoundTrip does: a nil slice and an empty one both stand
\* for the empty sequence).
C1_SameFields(a, b) ==
    /\ \A f \in StrFields : a[f] = b[f]
    /\ \A f \in SliceFields : a[f].items = b[f].items

--------------------------------------------------------------------------
(* The scanner, the resolver and the list command on seeded trees *)

\* The most files a seeded tree holds besides README.md.
MaxSeed == 2

\* The largest reporting interval a scan is started with.
MaxEvery == 2

\* The HOLON.md setupTestDir writes for an id.
SeedText(uuid) ==
    <<"-","-","-",NL,"u","u","i","d",":"," ",DQ>> \o uuid \o
    <<DQ,NL,"g","i","v","e","n","_","n","a","m","e",":"," ",DQ,"A","l",
      "p","h","a",DQ,NL,"f","a","m","i","l","y","_","n","a","m","e",":",
      " ",DQ,"T","e","s","t",DQ,NL,"s","t","a","t","u","s",":"," ","d",
      "r","a","f","t",NL,"-","-","-",NL>>

\* A file that has the delimiters and is not YAML between them.
Corrupt ==
    <<"-","-","-",NL,":"," ","b","r","o","k","e","n"," ","[","[",NL,
      "-","-","-",NL>>

\* What a seeded HOLON.md is: a record, a file that does not decode, a
\* file that cannot be read.
SeedFiles ==
    {FileNode(TRUE, SeedText(<<"a","a">>)),
     FileNode(TRUE, SeedText(<<"a","b">>)),
     FileNode(TRUE, SeedText(<<>>)),
     FileNode(TRUE, Corrupt),
     FileNode(FALSE, SeedText(<<"a","a">>))}

\* Where a seeded HOLON.md is.
SeedPlaces ==
    {CWD \o <<HolonMD>>,
     CWD \o <<Holons, <<"a">>, HolonMD>>,
     CWD \o <<DotSecret, HolonMD>>,
     CWD \o <<DotHolon, <<"t">>, HolonMD>>,
     HOME \o <<DotHolon, Cache, <<"c">>, HolonMD>>}

\* The tree every seeded tree has: the working directory with a file that
\* is no HOLON.md and has the text of one, an empty directory and a directory that cannot be
\* listed, and the home directory.
BareFS ==
    (<<>> :> DirNode(TRUE)) @@ (CWD :> DirNode(TRUE))
    @@ (HOME :> DirNode(TRUE))
    @@ (CWD \o <<ReadmeMD>> :> FileNode(TRUE, SeedText(<<"a","b">>)))
    @@ (CWD \o << <<"e">> >> :> DirNode(TRUE))
    @@ (CWD \o << <<"x">> >> :> DirNode(FALSE))

\* BareFS and the files of seed (place |-> file), each in its directory.
SeedFS(seed) ==
    LET dirs == UNION {{SubSeq(l, 1, k) : k \in 0..Len(l) - 1} :
                         l \in DOMAIN seed}
    IN  [x \in DOMAIN BareFS \cup dirs \cup DOMAIN seed |->
            IF x \in DOMAIN seed THEN seed[x]
            ELSE IF x \in DOMAIN BareFS THEN BareFS[x]
            ELSE DirNode(TRUE)]

\* A tree with a record under holons/, another in the working directory
\* and a copy of the first in the cache directory.
ThreeScans ==
    (CWD \o <<Holons, <<"a">>, HolonMD>>
        :> FileNode(TRUE, SeedText(<<"a","a">>)))
    @@ (CWD \o <<HolonMD>> :> FileNode(TRUE, SeedText(<<"a","b">>)))
    @@ (HOME \o <<DotHolon, Cache, <<"c">>, HolonMD>>
        :> FileNode(TRUE, SeedText(<<"a","a">>)))

Seeds ==
    UNION {[P -> SeedFiles] :
             P \in {Q \in SUBSET SeedPlaces : Cardinality(Q) <= MaxSeed}}
    \cup {ThreeScans}

\* The roots a scan, a resolution or a listing is given: the working
\* directory, its parent, directories of it, an empty one, one that does
\* not exist,
\* one that cannot be listed, and the cache directory.
Roots ==
    {Dot, RelPath(<<DotDot>>), RelPath(<<Holons>>), RelPath(<<DotSecret>>),
     RelPath(<< <<"e">> >>), RelPath(<< <<"n">> >>), RelPath(<< <<"x">> >>),
     AbsPath(HOME \o <<DotHolon, Cache>>)}

Targets == {<<>>, <<"a">>, <<"a","a">>, <<"a","b">>, <<"b">>, <<" ">>}

Homes == {[ok |-> TRUE, names |-> HOME], [ok |-> FALSE, names |-> <<>>]}

ScanInit ==
    /\ fs \in {SeedFS(s) : s \in Seeds}
    /\ issued = 0 /\ walk = NoWalk /\ out = NoCall /\ created = NoCall
    /\ rec = ZeroIdentity /\ content = <<>> /\ dec = NoParse /\ cpc = "off"

\* The calls below read the tree and leave it as it is, so what one
\* returns does not depend on the calls before it: a behaviour makes one.

\* identity.FindByUUID(root, target)
Find ==
    /\ out = NoCall
    /\ \E root \in Roots, target \in Targets :
         out' = [op |-> "find", root |-> root, target |-> target,
                 res |-> FindByUUID(fs, root, target)]
    /\ UNCHANGED <<fs, issued, walk, created>>
    /\ UNCHANGED codecVars

\* cli.RunShow(target)
ShowCommand ==
    /\ out = NoCall
    /\ \E target \in Targets :
         out' = [op |-> "runShow", target |-> target,
                 res |-> RunShow(fs, target)]
    /\ UNCHANGED <<fs, issued, walk, created>>
    /\ UNCHANGED codecVars

\* identity.ScanAllWithPaths(root, progressEvery, onFound, onProgress) is
\* called and WalkDir is about to visit root.
ScanStart ==
    /\ out = NoCall
    /\ \E root \in Roots, every \in -1..MaxEvery, onProgress \in BOOLEAN :
         /\ walk' = WalkStart(fs, "scan", root, ScanCb(every, onProgress))
         /\ out' = [op |-> "scanning", root |-> root, every |-> every,
                    onProgress |-> onProgress]
    /\ UNCHANGED <<fs, issued, created>>
    /\ UNCHANGED codecVars

\* WalkDir visits the next entry.
ScanStep ==
    /\ walk # NoWalk /\ walk.todo # <<>>
    /\ walk' = WalkStep(fs, walk)
    /\ UNCHANGED <<fs, issued, out, created>>
    /\ UNCHANGED codecVars

\* WalkDir has returned: the last report, and ScanAllWithPaths returns.
ScanReturn ==
    /\ walk.kind = "scan" /\ walk.todo = <<>>
    /\ out' = [op |-> "scan", root |-> out.root, every |-> out.every,
               onProgress |-> out.onProgress, res |-> ScanEnd(walk.cb)]
    /\ walk' = NoWalk
    /\ UNCHANGED <<fs, issued, created>>
    /\ UNCHANGED codecVars

\* cli.RunList(root)
List ==
    /\ out = NoCall
    /\ \E root \in Roots \cup {EmptyPath}, home \in Homes :
         out' = [op |-> "list", root |-> root, home |-> home,
                 res |-> RunList(fs, root, home)]
    /\ UNCHANGED <<fs, issued, walk, created>>
    /\ UNCHANGED codecVars

\* Server.ShowIdentity
Show ==
    /\ out = NoCall
    /\ \E uuid \in Targets \cup {NewUUID(n) : n \in 1..2} :
         out' = [op |-> "show", uuid |-> uuid,
                 res |-> ShowIdentity(fs, uuid)]
    /\ UNCHANGED <<fs, issued, walk, created>>
    /\ UNCHANGED codecVars

\* identity.FindAll(root)
FindAllOf ==
    /\ out = NoCall
    /\ \E root \in Roots :
         out' = [op |-> "findAll", root |-> root, res |-> FindAll(fs, root)]
    /\ UNCHANGED <<fs, issued, walk, created>>
    /\ UNCHANGED codecVars

\* Server.ListIdentities
ListIdentitiesOf ==
    /\ out = NoCall
    /\ \E rootDir \in Roots \cup {EmptyPath, RelPath(<< <<" ">> >>)} :
         out' = [op |-> "listIdentities", rootDir |-> rootDir,
                 root |-> ListRootDir(rootDir),
                 res |-> ListIdentities(fs, rootDir)]
    /\ UNCHANGED <<fs, issued, walk, created>>
    /\ UNCHANGED codecVars

\* identity.FindByUUID(root, target) is called and WalkDir is about to
\* visit root; ScanStep makes the visits.
FindStart ==
    /\ out = NoCall
    /\ \E root \in Roots, target \in Targets :
         /\ walk' = WalkStart(fs, "find", root,
                              [target |-> target, found |-> EmptyPath])
         /\ out' = [op |-> "finding", root |-> root, target |-> target]
    /\ UNCHANGED <<fs, issued, created>>
    /\ UNCHANGED codecVars

\* WalkDir has returned, and FindByUUID returns.
FindReturn ==
    /\ walk.kind = "find" /\ walk.todo = <<>>
    /\ out' = [op |-> "find", root |-> out.root, target |-> out.target,
               res |-> FindResult(out.target, walk.cb.found)]
    /\ walk' = NoWalk
    /\ UNCHANGED <<fs, issued, created>>
    /\ UNCHANGED codecVars

ScanNext ==
    \/ Find \/ ScanStart \/ ScanStep \/ ScanReturn \/ List \/ Show
    \/ FindAllOf \/ ListIdentitiesOf \/ FindStart \/ FindReturn
    \/ ShowCommand

ScanSpec == ScanInit /\ [][ScanNext]_vars

--------------------------------------------------------------------------
(* C2..C6, C10: the resolver and the scanner against the tree *)

\* The places of f at or below root.
PlacesUnder(f, root) ==
    {l \in DOMAIN f : /\ Exists(f, Loc(root))
                      /\ Len(l) >= Len(Loc(root))
                      /\ SubSeq(l, 1, Len(Loc(root))) = Loc(root)}

NamedHolonMD(l) == l # <<>> /\ l[Len(l)] = HolonMD

\* A HOLON.md of f at l that can be read and decodes.
IsRecordFile(f, l) ==
    /\ NamedHolonMD(l)
    /\ f[l].kind = "file" /\ f[l].readable
    /\ ParseFrontmatter(f[l].data).err = ""

RecordAt(f, l) == ParseFrontmatter(f[l].data).id

\* Every directory from root down to l can be listed.
Reachable(f, root, l) ==
    \A k \in Len(Loc(root))..(Len(l) - 1) : f[SubSeq(l, 1, k)].readable

HiddenName(name) ==
    name # <<>> /\ name[1] = "." /\ name \notin {<<".">>, DotHolon}

\* A directory with a hidden name lies on the way from root to l, root
\* itself included.
BelowHidden(root, l) ==
    \/ HiddenName(Base(root))
    \/ \E k \in (Len(Loc(root)) + 1)..(Len(l) - 1) : HiddenName(l[k])

Matches(uuid, target) ==
    Len(uuid) >= Len(target) /\ SubSeq(uuid, 1, Len(target)) = target

\* The files the resolver may answer with.
C2_Candidates(f, root, target) ==
    {l \in PlacesUnder(f, root) :
        /\ IsRecordFile(f, l) /\ Reachable(f, root, l)
        /\ Matches(RecordAt(f, l).UUID, target)}

\* C2: FindByUUID(root, target) succeeds exactly when some readable,
\* decodable HOLON.md under root has an id that is target or starts with
\* it, and the path it returns is the path of such a file.
C2_FindSucceedsIffRecordMatches ==
    out.op = "find" =>
        /\ out.res.err = <<>>
             <=> C2_Candidates(fs, out.root, out.target) # {}
        /\ out.res.err = <<>>
             => Loc(out.res.path) \in C2_Candidates(fs, out.root, out.target)

\* FindByUUID has answered a proper prefix with the file of the record,
\* in a tree that has another HOLON.md.
C2_Witness ==
    /\ out.op = "find" /\ out.target = <<"a">> /\ out.res.err = <<>>
    /\ RecordAt(fs, Loc(out.res.path)).UUID = <<"a","b">>
    /\ \E l \in DOMAIN fs : l # Loc(out.res.path) /\ NamedHolonMD(l)

\* C3: when no record under the root matches (the candidate files being
\* unreadable or undecodable included), FindByUUID fails with
\* "holon not found: <target>", and ShowIdentity answers NotFound with
\* that message.
C3_NoMatchIsNotFound ==
    /\ out.op = "find" /\ C2_Candidates(fs, out.root, out.target) = {}
         => out.res.err = HolonNotFound \o out.target
    /\ out.op = "show" /\ TrimSpace(out.uuid) # <<>>
         /\ C2_Candidates(fs, Dot, out.uuid) = {}
         => /\ out.res.code = "NotFound"
            /\ out.res.msg.arg = HolonNotFound \o out.uuid

\* ShowIdentity has answered NotFound in a tree whose HOLON.md files
\* cannot be read or decoded.
C3_Witness ==
    /\ out.op = "show" /\ out.uuid = <<"a","a">>
    /\ out.res.code = "NotFound"
    /\ \E l \in DOMAIN fs : NamedHolonMD(l) /\ ~fs[l].readable
    /\ \E l \in DOMAIN fs : NamedHolonMD(l) /\ fs[l].data = Corrupt

\* The files onFound has been called with, in the scan in progress or
\* just returned.
Emitted ==
    IF out.op = "scan" THEN out.res.cb.emitted
    ELSE IF out.op = "scanning" THEN walk.cb.emitted
    ELSE <<>>

\* C4: a record under a directory with a hidden name (other than "." and
\* ".holon") on the way from the root is never emitted by the bulk scan,
\* and FindByUUID finds it when its id matches: it succeeds, with the path
\* of that record when no other record matches.
C4_HiddenSkippedByScanFoundByResolver ==
    /\ \A i \in 1..Len(Emitted) :
         ~BelowHidden(out.root, Loc(Emitted[i].Path))
    /\ out.op = "find" =>
         \A l \in C2_Candidates(fs, out.root, out.target) :
            BelowHidden(Dot, l) =>
               /\ out.res.err = <<>>
               /\ C2_Candidates(fs, out.root, out.target) = {l}
                    => Loc(out.res.path) = l

\* A scan of the working directory has returned nothing while .secret
\* holds a record, which the resolver finds.
C4_Witness ==
    /\ out.op = "scan" /\ out.root = Dot /\ out.res.cb.emitted = <<>>
    /\ Exists(fs, CWD \o <<DotSecret, HolonMD>>)
    /\ IsRecordFile(fs, CWD \o <<DotSecret, HolonMD>>)
    /\ Loc(FindByUUID(fs, Dot, <<"a","b">>).path)
         = CWD \o <<DotSecret, HolonMD>>

\* The files a scan of root is to emit.
C5_Records(f, root) ==
    {l \in PlacesUnder(f, root) :
        /\ IsRecordFile(f, l) /\ Reachable(f, root, l)
        /\ ~BelowHidden(root, l)}

\* C5: a bulk scan returns no error and has emitted every decodable
\* record of the tree once, whatever files of the tree cannot be read or
\* decoded; it emits nothing when no file decodes.
C5_CorruptFilesAreSkipped ==
    out.op = "scan" =>
        /\ out.res.err = ""
        /\ {Loc(Emitted[i].Path) : i \in 1..Len(Emitted)}
             = C5_Records(fs, out.root)
        /\ Len(Emitted) = Cardinality(C5_Records(fs, out.root))
        /\ out.res.cb.found = Len(Emitted)

\* A scan has gone past a file that does not decode and emitted the
\* record after it.
C5_Witness ==
    /\ out.op = "scan" /\ out.root = Dot /\ out.res.err = ""
    /\ Exists(fs, CWD \o <<HolonMD>>) /\ fs[CWD \o <<HolonMD>>].data = Corrupt
    /\ Len(Emitted) = 1
    /\ Loc(Emitted[1].Path) = CWD \o <<Holons, <<"a">>, HolonMD>>

\* The reports onProgress has been called with.
Reports ==
    IF out.op = "scan" THEN out.res.cb.progress
    ELSE IF out.op = "scanning" THEN walk.cb.progress
    ELSE <<>>

\* C6: the reports of a scan never decrease, in scanned or in found, and
\* the last report of a scan with a progress callback has the number of
\* records the scan emitted.
C6_ProgressMonotone ==
    /\ \A i \in 1..Len(Reports), j \in 1..Len(Reports) :
         i <= j => /\ Reports[i].ScannedFiles <= Reports[j].ScannedFiles
                   /\ Reports[i].HolonsFound <= Reports[j].HolonsFound
    /\ out.op = "scan" /\ out.onProgress =>
         /\ Reports # <<>>
         /\ Reports[Len(Reports)].HolonsFound = Len(Emitted)

\* A scan with interval 1 has returned after four reports and two
\* records.
C6_Witness ==
    /\ out.op = "scan" /\ out.every = 1 /\ out.onProgress
    /\ Len(Reports) = 4 /\ Len(Emitted) = 2
    /\ Reports[4].HolonsFound = 2 /\ Reports[1].HolonsFound = 0

\* The root of the scan does not exist or cannot be listed.
C10_RootFails ==
    \/ ~Exists(fs, Loc(out.root))
    \/ IsDir(fs, Loc(out.root)) /\ ~fs[Loc(out.root)].readable

\* C10: a bulk scan whose root does not exist or cannot be read returns
\* an error (and no results).
C10_RootErrorIsReturned ==
    out.op = "scan" /\ C10_RootFails =>
        out.res.err # "" /\ Emitted = <<>>

--------------------------------------------------------------------------
(* C7: the list command prints a record of both local scans once *)

\* The path WalkDir gives the file at l in a walk from root.
PathFrom(root, l) ==
    [root EXCEPT !.names = @ \o SubSeq(l, Len(Loc(root)) + 1, Len(l))]

\* The files both local scans of the listing emit.
C7_ReachedTwice ==
    C5_Records(fs, Join(ListRoot(out.root), Holons))
        \cap C5_Records(fs, ListRoot(out.root))

\* Entry e is a line for the de-duplication key of the record at l: its
\* id, or its path when the id is empty.
C7_LineOf(e, l) ==
    /\ e.UUID = RecordAt(fs, l).UUID
    /\ e.UUID = <<>> =>
          e.path = relHolonDir(ListRoot(out.root),
                               PathFrom(ListRoot(out.root), l))

\* Entries d and e have the same de-duplication key.
C7_SameKey(d, e) ==
    d.UUID = e.UUID /\ (d.UUID = <<>> => d.path = e.path)

C7_Lines(l, origins) ==
    {i \in 1..Len(out.res.entries) :
        /\ out.res.entries[i].origin \in origins
        /\ C7_LineOf(out.res.entries[i], l)}

\* No two lines labelled "local" have the same de-duplication key.
C7_LocalKeysDiffer ==
    \A i \in 1..Len(out.res.entries), j \in 1..Len(out.res.entries) :
        /\ i # j
        /\ out.res.entries[i].origin = Local
        /\ out.res.entries[j].origin = Local
        => ~C7_SameKey(out.res.entries[i], out.res.entries[j])

\* C7 as stated: a record reached by the scan of root/holons and by the
\* scan of root is printed exactly once in the listing, labelled "local",
\* and no two lines labelled "local" share a de-duplication key.
C7_PrintedOnceInListing ==
    out.op = "list" =>
        /\ \A l \in C7_ReachedTwice :
              /\ Cardinality(C7_Lines(l, {Local, Cached})) = 1
              /\ C7_Lines(l, {Local}) # {}
        /\ C7_LocalKeysDiffer

\* C7, amended: a record reached by the scan of root/holons and by the
\* scan of root is printed exactly once with the label "local" (the scan
\* of the cache directory does not de-duplicate, and prints a record of
\* the same id again, labelled "cached"), and no two lines labelled
\* "local" share a de-duplication key.
C7_PrintedOnceAsLocal ==
    out.op = "list" =>
        /\ \A l \in C7_ReachedTwice :
              Cardinality(C7_Lines(l, {Local})) = 1
        /\ C7_LocalKeysDiffer

\* A listing of the working directory has printed the record under
\* holons/ once as local and its copy in the cache as cached.
C7_Witness ==
    /\ out.op = "list" /\ out.root = Dot
    /\ C7_ReachedTwice = {CWD \o <<Holons, <<"a">>, HolonMD>>}
    /\ Len(out.res.entries) = 2
    /\ out.res.entries[1].origin = Local
    /\ out.res.entries[2].origin = Cached
    /\ out.res.entries[1].UUID = <<"a","a">>
    /\ out.res.entries[2].UUID = <<"a","a">>

--------------------------------------------------------------------------
(* The service: identities created, shown and listed *)

\* The most ids a behaviour issues.
MaxCreates == 2

\* The trees the server starts in: the bare tree with a directory where
\* a HOLON.md would be, then with a record, then with a file that does
\* not decode.
ServerBare ==
    (CWD \o << <<"d">>, HolonMD, <<"k">> >>) :> FileNode(TRUE, <<>>)

ServerSeeds ==
    {SeedFS(ServerBare),
     SeedFS(ServerBare @@ (CWD \o <<Holons, <<"a">>, HolonMD>>)
                            :> FileNode(TRUE, SeedText(<<"a","a">>))),
     SeedFS(ServerBare @@ (CWD \o <<HolonMD>>) :> FileNode(TRUE, Corrupt))}

\* A request validCreateReq would make, and one with every optional field
\* set and characters that need escaping.
PlainRequest ==
    [GivenName |-> <<"A","b">>, FamilyName |-> <<"C","?">>,
     Motto |-> <<"m">>, Composer |-> <<"c">>,
     Clade |-> "CLADE_UNSPECIFIED",
     Reproduction |-> "REPRODUCTION_UNSPECIFIED",
     Lang |-> <<>>, Aliases |-> NilSlice, OutputDir |-> EmptyPath]

FullRequest ==
    [GivenName |-> <<"A"," ",DQ>>, FamilyName |-> <<"C">>,
     Motto |-> <<"m",NL>>, Composer |-> <<BS,"c">>,
     Clade |-> "PROBABILISTIC_ADAPTIVE", Reproduction |-> "BRED",
     Lang |-> <<"g","o">>, Aliases |-> Slice(<< <<"x">> >>),
     OutputDir |-> EmptyPath]

\* Requests with a required field empty or blank.
BlankRequests ==
    {[PlainRequest EXCEPT !.GivenName = <<>>],
     [PlainRequest EXCEPT !.GivenName = <<" ">>],
     [PlainRequest EXCEPT !.FamilyName = <<"\t">>],
     [PlainRequest EXCEPT !.Motto = <<NL," ">>],
     [PlainRequest EXCEPT !.Composer = <<>>],
     [FullRequest EXCEPT !.Composer = <<" "," ">>,
                         !.OutputDir = RelPath(<<Holons, <<"s">> >>)]}

\* The output directories asked for: none, one under the working
\* directory, one outside it, a file, and one whose HOLON.md is a
\* directory.
OutputDirs ==
    {EmptyPath, RelPath(<<Holons, <<"s">> >>), AbsPath(<< <<"o">> >>),
     RelPath(<<ReadmeMD>>), RelPath(<< <<"d">> >>)}

\* A request whose given_name starts with a dot.
DottedRequest == [PlainRequest EXCEPT !.GivenName = <<".","x">>]

Requests ==
    BlankRequests
    \cup {[r EXCEPT !.OutputDir = o] :
             r \in {PlainRequest, FullRequest}, o \in OutputDirs}
    \cup {DottedRequest}

ServerInit ==
    /\ fs \in ServerSeeds
    /\ issued = 0 /\ walk = NoWalk /\ out = NoCall /\ created = NoCall
    /\ rec = ZeroIdentity /\ content = <<>> /\ dec = NoParse /\ cpc = "off"

\* The successful responses of CreateIdentity so far: the last one, and
\* in earlier the id and the file_path of those before it.
Remembered(res, before) ==
    [code |-> res.code, msg |-> res.msg, Identity |-> res.Identity,
     FilePath |-> res.FilePath, RawContent |-> res.RawContent,
     earlier |-> IF before = NoCall THEN <<>>
                 ELSE Append(before.earlier,
                             [Uuid |-> before.Identity.Uuid,
                              FilePath |-> before.FilePath])]

\* The state after a CreateIdentity that has returned r.
Created(req, r) ==
    /\ out' = [op |-> "create", req |-> req, res |-> r.res]
    /\ fs' = r.fs
    /\ issued' = r.issued
    /\ created' = IF r.res.code = "OK" THEN Remembered(r.res, created)
                  ELSE created

\* Server.CreateIdentity
Create ==
    /\ issued < MaxCreates
    /\ \E req \in Requests : Created(req, CreateIdentity(fs, issued, req))
    /\ UNCHANGED walk
    /\ UNCHANGED codecVars

\* Server.ShowIdentity
ServerShow ==
    /\ \E uuid \in {NewUUID(n) : n \in 1..MaxCreates}
                    \cup {<<"u">>, <<" ">>, <<"a","a">>} :
         out' = [op |-> "show", uuid |-> uuid,
                 res |-> ShowIdentity(fs, uuid)]
    /\ UNCHANGED <<fs, issued, walk, created>>
    /\ UNCHANGED codecVars

\* Server.ListIdentities
ServerList ==
    /\ \E rootDir \in {EmptyPath, RelPath(<< <<" ">> >>),
                        RelPath(<<DotHolon>>), AbsPath(<< <<"o">> >>)} :
         out' = [op |-> "listIdentities", rootDir |-> rootDir,
                 res |-> ListIdentities(fs, rootDir)]
    /\ UNCHANGED <<fs, issued, walk, created>>
    /\ UNCHANGED codecVars

\* The values of pb.Clade and pb.ReproductionMode a conversion is given:
\* the named ones, the unspecified one and one the enum does not name.
CladeValues ==
    {CladeNames[k][1] : k \in 1..Len(CladeNames)}
    \cup {"CLADE_UNSPECIFIED", "Clade(99)"}

ReproductionValues ==
    {ReproductionNames[k][1] : k \in 1..Len(ReproductionNames)}
    \cup {"REPRODUCTION_UNSPECIFIED", "ReproductionMode(99)"}

\* The texts a conversion is given: those of the three maps, and texts
\* none of them has.
EnumTexts ==
    {CladeNames[k][2] : k \in 1..Len(CladeNames)}
    \cup {StatusNames[k][2] : k \in 1..Len(StatusNames)}
    \cup {ReproductionNames[k][2] : k \in 1..Len(ReproductionNames)}
    \cup {<<>>, <<"u","n","k","n","o","w","n">>, <<"D","R","A","F","T">>,
          <<"m","a","n","u","a","l"," ">>}

\* The call of a conversion helper and what it has returned.
Converted(fn, arg, res) ==
    out' = [op |-> "convert", fn |-> fn, arg |-> arg, res |-> res]

\* A conversion helper of the server is called; what it returns depends
\* on its argument only, so a behaviour starts with the one call.
Convert ==
    /\ out = NoCall
    /\ \/ \E c \in CladeValues :
            Converted("cladeToString", c, cladeToString(c))
       \/ \E r \in ReproductionValues :
            Converted("reproductionToString", r, reproductionToString(r))
       \/ \E t \in EnumTexts :
            Converted("stringToClade", t, stringToClade(t))
       \/ \E t \in EnumTexts :
            Converted("stringToStatus", t, stringToStatus(t))
       \/ \E t \in EnumTexts :
            Converted("stringToReproduction", t, stringToReproduction(t))
    /\ UNCHANGED <<fs, issued, walk, created>>
    /\ UNCHANGED codecVars

ServerNext == Create \/ ServerShow \/ ServerList \/ Convert

ServerSpec == ServerInit /\ [][ServerNext]_vars

--------------------------------------------------------------------------
(* C8, C9: CreateIdentity validates, and ShowIdentity finds what it made *)

\* A required field of the request is empty or all whitespace.
C8_Blank(req) ==
    \E k \in {"GivenName", "FamilyName", "Motto", "Composer"} :
        \A i \in 1..Len(req[k]) : req[k][i] \in {" ", "\t", NL}

\* C8: CreateIdentity fails with InvalidArgument whenever given_name,
\* family_name, motto or composer is empty or blank, and the call then
\* issues no id and leaves the filesystem as it was.
C8_BlankIsInvalidArgument ==
    /\ [](out.op = "create" /\ C8_Blank(out.req)
            => out.res.code = "InvalidArgument")
    /\ [][out'.op = "create" /\ C8_Blank(out'.req)
            => fs' = fs /\ issued' = issued]_vars

\* A request with a blank given_name has been refused, after an identity
\* had been created.
C8_Witness ==
    /\ out.op = "create" /\ out.req.GivenName = <<" ">>
    /\ out.res.code = "InvalidArgument"
    /\ created # NoCall /\ issued = 1

\* The file of the last identity created decodes to a record with the id
\* of the response.
C9_FileHasTheId ==
    created # NoCall =>
        /\ Exists(fs, Loc(created.FilePath))
        /\ IsRecordFile(fs, Loc(created.FilePath))
        /\ RecordAt(fs, Loc(created.FilePath)).UUID = created.Identity.Uuid

\* ShowIdentity, asked for the id of the last identity created, answers
\* with its id, given_name and composer.
C9_ShowAnswers ==
    /\ out.res.code = "OK"
    /\ out.res.Identity.Uuid = created.Identity.Uuid
    /\ out.res.Identity.GivenName = created.Identity.GivenName
    /\ out.res.Identity.Composer = created.Identity.Composer

\* The file of the last identity created is under the working directory
\* of the server, in directories that can be listed.
C9_UnderWorkingDir ==
    /\ Loc(created.FilePath) \in PlacesUnder(fs, Dot)
    /\ Reachable(fs, Dot, Loc(created.FilePath))

\* C9 as stated: after a successful CreateIdentity the file at file_path
\* decodes to a record with the returned id, and ShowIdentity of that id
\* returns the id, given_name and composer of the Create response.
C9_ShowAfterCreate ==
    /\ C9_FileHasTheId
    /\ out.op = "show" /\ created # NoCall
         /\ out.uuid = created.Identity.Uuid
         => C9_ShowAnswers

\* C9, amended: after a successful CreateIdentity the file at file_path
\* decodes to a record with the returned id, and when file_path is under
\* the working directory of the server ShowIdentity of that id returns
\* the id, given_name and composer of the Create response.
C9_ShowAfterCreateUnderWorkingDir ==
    /\ C9_FileHasTheId
    /\ out.op = "show" /\ created # NoCall
         /\ out.uuid = created.Identity.Uuid /\ C9_UnderWorkingDir
         => C9_ShowAnswers

\* ShowIdentity has answered for the second identity created, whose
\* given_name needs escaping in the file.
C9_Witness ==
    /\ out.op = "show" /\ created # NoCall /\ issued = 2
    /\ out.uuid = created.Identity.Uuid
    /\ out.res.code = "OK"
    /\ created.Identity.GivenName = <<"A"," ",DQ>>
    /\ out.res.Identity.GivenName = <<"A"," ",DQ>>
    /\ out.res.FilePath = created.FilePath

--------------------------------------------------------------------------
(* C11: finding nothing is a valid result *)

\* The directory at root can be listed and has nothing in it.
C11_EmptyDir(f, root) ==
    /\ IsDir(f, Loc(root)) /\ f[Loc(root)].readable
    /\ PlacesUnder(f, root) = {Loc(root)}

\* C11: FindAll and ScanAllWithPaths on an empty directory return no
\* record and no error, and ListIdentities on a root that can be listed
\* and holds no record answers OK with zero entries.
C11_EmptyIsValid ==
    /\ out.op = "findAll" /\ C11_EmptyDir(fs, out.root)
         => out.res.err = "" /\ out.res.holons = <<>>
    /\ out.op = "scan" /\ C11_EmptyDir(fs, out.root)
         => out.res.err = "" /\ Emitted = <<>>
    /\ out.op = "listIdentities" /\ ~C10_RootFails
         /\ C5_Records(fs, out.root) = {}
         => out.res.code = "OK" /\ out.res.Entries = <<>>

\* ListIdentities has answered for the empty directory e, which FindAll
\* scans without a record or an error, in a tree that has a record
\* elsewhere.
C11_Witness ==
    /\ out.op = "listIdentities" /\ out.rootDir = RelPath(<< <<"e">> >>)
    /\ C11_EmptyDir(fs, out.root)
    /\ out.res.code = "OK" /\ out.res.Entries = <<>>
    /\ FindAll(fs, out.root) = [err |-> "", holons |-> <<>>]
    /\ C5_Records(fs, Dot) # {}

--------------------------------------------------------------------------
(* C12: ListIdentities lists the records of the one root it is given *)

\* The text of a path relHolonDir returns, r = [abs, up, names].
C12_Text(r) ==
    IF r.abs THEN PathString(AbsPath(r.names))
    ELSE PathString(RelPath([i \in 1..r.up |-> <<".", ".">>] \o r.names))

\* The directory of the file at l, taken from the directory at root.
C12_DirFrom(root, l) ==
    [abs |-> FALSE, up |-> 0,
     names |-> SubSeq(l, Len(Loc(root)) + 1, Len(l) - 1)]

\* The file entry e of a listing of root stands for.
C12_PlaceOf(root, e) == Loc(root) \o e.RelativePath.names \o <<HolonMD>>

\* What the bulk scan of the listed root emits.
C12_Scanned == ScanAllWithPaths(fs, out.root, 0, FALSE).cb.emitted

\* C12: ListIdentities scans the root of the request, the working
\* directory when root_dir is blank, and answers with one entry for each
\* record the bulk scan of that root emits, in that order: the record,
\* the origin "local", and the directory of the record relative to the
\* root, which is never the empty text.  No file outside the root has
\* an entry.
C12_OneEntryPerRecordOfRoot ==
    out.op = "listIdentities" =>
        /\ out.rootDir \in {EmptyPath, RelPath(<< <<" ">> >>)}
              => out.root = Dot
        /\ out.rootDir \notin {EmptyPath, RelPath(<< <<" ">> >>)}
              => out.root = out.rootDir
        /\ out.res.code = "OK"
        /\ Len(out.res.Entries) = Len(C12_Scanned)
        /\ \A i \in 1..Len(out.res.Entries) :
              /\ out.res.Entries[i].Identity
                    = toProto(C12_Scanned[i].Identity)
              /\ out.res.Entries[i].Origin = "local"
              /\ C12_Text(out.res.Entries[i].RelativePath) # <<>>
              /\ out.res.Entries[i].RelativePath
                    = C12_DirFrom(out.root, Loc(C12_Scanned[i].Path))
        /\ {C12_PlaceOf(out.root, out.res.Entries[i]) :
                i \in 1..Len(out.res.Entries)} = C5_Records(fs, out.root)
        /\ Len(out.res.Entries) = Cardinality(C5_Records(fs, out.root))

\* ListIdentities has listed holons: one entry, for the record in
\* holons/a, with the path "a", while the cache holds another record.
C12_Witness ==
    /\ out.op = "listIdentities" /\ out.rootDir = RelPath(<<Holons>>)
    /\ Len(out.res.Entries) = 1
    /\ out.res.Entries[1].Origin = "local"
    /\ C12_Text(out.res.Entries[1].RelativePath) = <<"a">>
    /\ out.res.Entries[1].Identity.Uuid = <<"a","b">>
    /\ Exists(fs, HOME \o <<DotHolon, Cache, <<"c">>, HolonMD>>)
    /\ IsRecordFile(fs, HOME \o <<DotHolon, Cache, <<"c">>, HolonMD>>)

--------------------------------------------------------------------------
(* C13: what New constructs *)

\* The record files of the tree that carry the id uuid.
C13_FilesWith(uuid) ==
    {l \in DOMAIN fs : IsRecordFile(fs, l) /\ RecordAt(fs, l).UUID = uuid}

--------------------------------------------------------------------------
(* C14: the conversions between the wire enums and their texts *)

C14_Clades ==
    {"DETERMINISTIC_PURE", "DETERMINISTIC_STATEFUL", "DETERMINISTIC_IO_BOUND",
     "PROBABILISTIC_GENERATIVE", "PROBABILISTIC_PERCEPTUAL",
     "PROBABILISTIC_ADAPTIVE"}

C14_Reproductions ==
    {"MANUAL", "ASSISTED", "AUTOMATIC", "AUTOPOIETIC", "BRED"}

\* The texts of a map of the conversions.
C14_Known(table) == {table[k][2] : k \in 1..Len(table)}

\* C14: the text of each of the six clades converts back to that clade,
\* and the text of each of the five reproduction modes to that mode; a
\* clade or mode that is none of them converts to "deterministic/pure"
\* and "manual"; a text that is none of a map's converts to the
\* UNSPECIFIED value of the enum.
C14_EnumConversion ==
    out.op = "convert" =>
        /\ out.fn = "cladeToString" =>
              IF out.arg \in C14_Clades
              THEN stringToClade(out.res) = out.arg
              ELSE out.res = <<"d","e","t","e","r","m","i","n","i","s","t",
                               "i","c","/","p","u","r","e">>
        /\ out.fn = "reproductionToString" =>
              IF out.arg \in C14_Reproductions
              THEN stringToReproduction(out.res) = out.arg
              ELSE out.res = <<"m","a","n","u","a","l">>
        /\ out.fn = "stringToClade" /\ out.arg \notin C14_Known(CladeNames)
              => out.res = "CLADE_UNSPECIFIED"
        /\ out.fn = "stringToStatus" /\ out.arg \notin C14_Known(StatusNames)
              => out.res = "STATUS_UNSPECIFIED"
        /\ out.fn = "stringToReproduction"
              /\ out.arg \notin C14_Known(ReproductionNames)
              => out.res = "REPRODUCTION_UNSPECIFIED"
        /\ out.fn = "stringToClade" /\ out.arg \in C14_Known(CladeNames)
              => out.res \in C14_Clades /\ cladeToString(out.res) = out.arg
        /\ out.fn = "stringToReproduction"
              /\ out.arg \in C14_Known(ReproductionNames)
              => /\ out.res \in C14_Reproductions
                 /\ reproductionToString(out.res) = out.arg

\* The last clade has been converted to its text, which converts back.
C14_Witness ==
    /\ out.op = "convert" /\ out.fn = "cladeToString"
    /\ out.arg = "PROBABILISTIC_ADAPTIVE"
    /\ out.res = <<"p","r","o","b","a","b","i","l","i","s","t","i","c","/",
                   "a","d","a","p","t","i","v","e">>
    /\ stringToClade(out.res) = "PROBABILISTIC_ADAPTIVE"

--------------------------------------------------------------------------
(* C15, C16: what ParseFrontmatter refuses, and what it takes the block *)
(* and the body to be                                                   *)

\* The three characters at position i of c are the delimiter.
C15_DelimAt(c, i) ==
    i + 2 <= Len(c) /\ c[i] = "-" /\ c[i + 1] = "-" /\ c[i + 2] = "-"

\* The positions of c after the opening delimiter that hold a newline
\* followed by the delimiter.
C15_Closings(c) ==
    {k \in 4..Len(c) : c[k] = NL /\ C15_DelimAt(c, k + 1)}

\* c has both delimiters around a block that is no mapping.
C15_BlockIsNoMapping(c) ==
    \E b \in BadBlocks :
        \/ HasPrefix(c, Delim \o <<NL>> \o b \o <<NL>> \o Delim)
        \/ HasPrefix(c, Delim \o b \o <<NL>> \o Delim)

\* C15: ParseFrontmatter fails when the text does not begin with the
\* delimiter, when no newline followed by the delimiter comes after the
\* opening delimiter, and when the block between the delimiters is no
\* mapping; whenever it fails the record it returns is the zero record
\* and the body is empty.
C15_FailureIsWhole ==
    cpc \in {"parsed", "decoded"} =>
        /\ ~C15_DelimAt(content, 1) => dec.err # ""
        /\ C15_Closings(content) = {} => dec.err # ""
        /\ C15_BlockIsNoMapping(content) => dec.err # ""
        /\ dec.err # "" => dec.id = ZeroIdentity /\ dec.body = <<>>

\* ParseFrontmatter has refused a text whose block has a line that
\* decodes before the line that does not, with text after the closing
\* delimiter.
C15_Witness ==
    /\ cpc = "decoded" /\ dec.err = ErrYaml
    /\ C15_BlockIsNoMapping(content)
    /\ HasPrefix(content, <<"-","-","-",NL,"u","u","i","d",":"," ",DQ,"a",DQ,NL,":">>)
    /\ content[Len(content)] = "b" \/ content[Len(content) - 1] = "b"
    /\ dec.id = ZeroIdentity /\ dec.body = <<>>

\* The length of the opening delimiter line of c: the delimiter and the
\* newline after it, if there is one.
C16_Opening(c) == IF Len(c) >= 4 /\ c[4] = NL THEN 4 ELSE 3

\* The newline of the first closing delimiter after the opening line.
C16_Closing(c) == Min({k \in C15_Closings(c) : k > C16_Opening(c)})

\* C16: when ParseFrontmatter succeeds, the record is what yaml.Unmarshal
\* makes of the text between the opening delimiter line and the first
\* newline followed by the delimiter after it, and the body is the text
\* after that delimiter, to the end.
C16_BlockAndBodyAreExact ==
    cpc \in {"parsed", "decoded"} /\ dec.err = "" =>
        /\ {k \in C15_Closings(content) : k > C16_Opening(content)} # {}
        /\ ~YamlUnmarshal(SubSeq(content, C16_Opening(content) + 1,
                                 C16_Closing(content) - 1)).err
        /\ dec.id = YamlUnmarshal(SubSeq(content, C16_Opening(content) + 1,
                                         C16_Closing(content) - 1)).id
        /\ dec.body = SubSeq(content, C16_Closing(content) + 4,
                             Len(content))

\* ParseFrontmatter has decoded a text whose body holds the delimiter
\* again: the block ends at the first, the body has the second.
C16_Witness ==
    /\ cpc = "decoded" /\ dec.err = ""
    /\ dec.id.UUID = <<"a">> /\ dec.id.Status = Draft
    /\ dec.body = <<"k",":"," ","v",NL,"-","-","-",NL>>
    /\ Cardinality(C15_Closings(content)) = 2

--------------------------------------------------------------------------
(* C17: the directories the bulk scan does not enter *)

\* The files a scan of root counts: those it can reach without entering
\* a directory with a hidden name.
C17_Counted(f, root) ==
    {l \in PlacesUnder(f, root) :
        /\ f[l].kind = "file" /\ Reachable(f, root, l)
        /\ ~BelowHidden(root, l)}

\* The record files of the tree below a directory named ".holon".
C17_UnderDotHolon(f, root) ==
    {l \in C5_Records(f, root) :
        \E k \in (Len(Loc(root)) + 1)..(Len(l) - 1) : l[k] = DotHolon}

\* C17: the bulk scan never visits an entry below a directory whose name
\* starts with "." and is neither "." nor ".holon" (the root of the scan
\* being such a directory included), and emits no file below one; when it returns it has counted the files outside such
\* directories and no other, and has emitted every record below a
\* directory named ".holon" that it can reach.
C17_HiddenDirsAreNotEntered ==
    /\ out.op = "scanning" =>
         \A i \in 1..Len(walk.todo) :
            walk.todo[i].path # out.root
               => ~BelowHidden(out.root, Loc(walk.todo[i].path))
    /\ \A i \in 1..Len(Emitted) :
         ~BelowHidden(out.root, Loc(Emitted[i].Path))
    /\ out.op = "scan" =>
         /\ out.res.cb.scanned = Cardinality(C17_Counted(fs, out.root))
         /\ C17_UnderDotHolon(fs, out.root)
               \subseteq {Loc(Emitted[i].Path) : i \in 1..Len(Emitted)}

\* A scan of the working directory has returned the record of .holon/t
\* and counted two files, while .secret holds a record too.
C17_Witness ==
    /\ out.op = "scan" /\ out.root = Dot
    /\ Len(Emitted) = 1
    /\ Loc(Emitted[1].Path) = CWD \o <<DotHolon, <<"t">>, HolonMD>>
    /\ out.res.cb.scanned = 2
    /\ Exists(fs, CWD \o <<DotSecret, HolonMD>>)
    /\ IsRecordFile(fs, CWD \o <<DotSecret, HolonMD>>)

--------------------------------------------------------------------------
(* C18: the two counters of a bulk scan *)

\* The entry e = [path, err] of the walk is a file.
C18_IsFile(e) ==
    ~e.err /\ Exists(fs, Loc(e.path)) /\ fs[Loc(e.path)].kind = "file"

\* The files named HOLON.md a scan of root visits.
C18_Candidates(f, root) ==
    {l \in C17_Counted(f, root) : NamedHolonMD(l)}

\* The counters as they stand: in the scan in progress or just returned.
C18_Counters ==
    IF out.op = "scan" THEN out.res.cb
    ELSE IF out.op = "scanning" THEN walk.cb
    ELSE [scanned |-> 0, found |-> 0]

\* One visit of the walk: scanned goes up by one exactly for a file,
\* whatever its name; a report made in the visit has the new scanned and
\* the found of before, the count coming before the name test; found goes
\* up, by one, only for a file named HOLON.md that decodes.
C18_Visit ==
    out.op = "scanning" /\ walk.todo # <<>> /\ out'.op = "scanning" =>
        /\ walk'.cb.scanned =
              walk.cb.scanned + (IF C18_IsFile(Head(walk.todo)) THEN 1 ELSE 0)
        /\ Len(walk'.cb.progress) > Len(walk.cb.progress) =>
              walk'.cb.progress[Len(walk'.cb.progress)] =
                 [ScannedFiles |-> walk.cb.scanned + 1,
                  HolonsFound |-> walk.cb.found]
        /\ walk'.cb.found \in {walk.cb.found, walk.cb.found + 1}
        /\ walk'.cb.found > walk.cb.found =>
              /\ C18_IsFile(Head(walk.todo))
              /\ Base(Head(walk.todo).path) = HolonMD
              /\ IsRecordFile(fs, Loc(Head(walk.todo).path))

\* C18: scanned counts every file visited, whatever its name, and is
\* counted before the name is tested; only files named HOLON.md are
\* decoded; so found <= scanned at every point of a scan and in every
\* report, and at the end found <= the files named HOLON.md visited
\* <= scanned.
C18_CountersAreOrdered ==
    /\ [](/\ C18_Counters.found <= C18_Counters.scanned
          /\ \A i \in 1..Len(Reports) :
                Reports[i].HolonsFound <= Reports[i].ScannedFiles
          /\ \A i \in 1..Len(Emitted) : Base(Emitted[i].Path) = HolonMD
          /\ out.op = "scan" =>
                /\ out.res.cb.found
                      <= Cardinality(C18_Candidates(fs, out.root))
                /\ Cardinality(C18_Candidates(fs, out.root))
                      <= out.res.cb.scanned)
    /\ [][C18_Visit]_vars

\* A scan has returned having counted three files, two of them named
\* HOLON.md, one of which decodes; README.md would decode too.
C18_Witness ==
    /\ out.op = "scan" /\ out.root = Dot
    /\ out.res.cb.scanned = 3 /\ out.res.cb.found = 1
    /\ Cardinality(C18_Candidates(fs, Dot)) = 2
    /\ ParseFrontmatter(fs[CWD \o <<ReadmeMD>>].data).err = ""

--------------------------------------------------------------------------
(* C19: when the progress callback is called *)

\* The reports a scan with interval every has made by the time it has
\* counted scanned files, the last one not included.
C19_Periodic(every, scanned) == IF every > 0 THEN scanned \div every ELSE 0

\* C19: a scan with a progress callback and interval N > 0 has made one
\* report for each positive multiple of N the scanned counter has reached,
\* the k-th with scanned = k * N, and none for N <= 0; when it returns it
\* has made one more, with the final counters: floor(S / N) + 1 reports
\* for S files and N > 0, one report for N <= 0.  A scan without a
\* progress callback makes none.
C19_ProgressSchedule ==
    /\ out.op = "scanning" /\ out.onProgress =>
         /\ Len(Reports) = C19_Periodic(out.every, walk.cb.scanned)
         /\ \A k \in 1..Len(Reports) :
               Reports[k].ScannedFiles = k * out.every
    /\ out.op = "scan" /\ out.onProgress =>
         /\ Len(Reports) = C19_Periodic(out.every, out.res.cb.scanned) + 1
         /\ \A k \in 1..(Len(Reports) - 1) :
               Reports[k].ScannedFiles = k * out.every
         /\ Reports[Len(Reports)] =
               [ScannedFiles |-> out.res.cb.scanned,
                HolonsFound |-> out.res.cb.found]
         /\ out.every <= 0 => Len(Reports) = 1
    /\ out.op \in {"scanning", "scan"} /\ ~out.onProgress => Reports = <<>>

\* A scan with interval 2 has returned after three files and two
\* reports, the first at the second file.
C19_Witness ==
    /\ out.op = "scan" /\ out.onProgress /\ out.every = 2
    /\ out.res.cb.scanned = 3
    /\ Len(Reports) = 2
    /\ Reports[1].ScannedFiles = 2 /\ Reports[2].ScannedFiles = 3

--------------------------------------------------------------------------
(* C20: records are emitted as they are found, in the order of the walk *)

\* The place l comes before the place m in a walk: at the first name
\* where they part, the name of l sorts first.
C20_Before(l, m) ==
    \E k \in 1..Len(l) :
        /\ k <= Len(m) /\ SubSeq(l, 1, k - 1) = SubSeq(m, 1, k - 1)
        /\ LexLess(l[k], m[k])

\* One visit of the walk: a HOLON.md that decodes is handed to onFound in
\* the visit itself, with its record and its path, after the records of
\* the visits before; any other entry adds no call.
C20_Visit ==
    out.op = "scanning" /\ walk.todo # <<>> /\ out'.op = "scanning" =>
        IF C18_IsFile(Head(walk.todo))
           /\ IsRecordFile(fs, Loc(Head(walk.todo).path))
        THEN /\ walk'.cb.emitted =
                  Append(walk.cb.emitted,
                         [Identity |-> RecordAt(fs, Loc(Head(walk.todo).path)),
                          Path |-> Head(walk.todo).path])
             /\ walk'.cb.found = walk.cb.found + 1
        ELSE /\ walk'.cb.emitted = walk.cb.emitted
             /\ walk'.cb.found = walk.cb.found

\* C20: a file that decodes is counted in found and handed to onFound in
\* the visit that decodes it; found is the number of calls of onFound at
\* every point; the calls are in the order of the walk; and
\* FindAllWithPaths and FindAll return the records in that order.
C20_EmittedInWalkOrder ==
    /\ [](/\ C18_Counters.found = Len(Emitted)
          /\ \A i \in 1..Len(Emitted), j \in 1..Len(Emitted) :
                i < j => C20_Before(Loc(Emitted[i].Path),
                                    Loc(Emitted[j].Path))
          /\ out.op = "scan" =>
                FindAllWithPaths(fs, out.root).holons = Emitted
          /\ out.op = "findAll" =>
                out.res.holons =
                   Identities(ScanAllWithPaths(fs, out.root, 0,
                                               FALSE).cb.emitted, 1))
    /\ [][C20_Visit]_vars

\* A scan is about to visit holons, having emitted the record of
\* HOLON.md and not yet that of holons/a/HOLON.md.
C20_Witness ==
    /\ out.op = "scanning" /\ out.root = Dot
    /\ walk.todo # <<>> /\ Head(walk.todo).path = RelPath(<<Holons>>)
    /\ Len(walk.cb.emitted) = 1 /\ walk.cb.found = 1
    /\ walk.cb.emitted[1].Path = RelPath(<<HolonMD>>)
    /\ Exists(fs, CWD \o <<Holons, <<"a">>, HolonMD>>)
    /\ IsRecordFile(fs, CWD \o <<Holons, <<"a">>, HolonMD>>)

--------------------------------------------------------------------------
(* C21: the resolver stops at the first record that matches *)

\* The entry e = [path, err] of the walk is a record the target matches.
C21_IsMatch(e, target) ==
    /\ C18_IsFile(e) /\ IsRecordFile(fs, Loc(e.path))
    /\ Matches(RecordAt(fs, Loc(e.path)).UUID, target)

\* One visit of the resolver's walk: at a record that matches, the walk
\* ends with no entry left to visit and the path of that record found;
\* at any other entry nothing is found.
C21_Visit ==
    out.op = "finding" /\ walk.todo # <<>> /\ out'.op = "finding" =>
        IF C21_IsMatch(Head(walk.todo), out.target)
        THEN walk'.todo = <<>> /\ walk'.cb.found = Head(walk.todo).path
        ELSE walk'.cb.found = EmptyPath

\* C21: FindByUUID ends its walk at the first record that matches, in the
\* order of the walk, visits no entry after it and returns its path; with
\* several records matching it returns the first and no error.
C21_FirstMatchWins ==
    /\ [](/\ out.op = "finding" /\ walk.cb.found # EmptyPath
                => walk.todo = <<>>
          /\ out.op = "find" =>
                \A l \in C2_Candidates(fs, out.root, out.target) :
                   /\ out.res.err = <<>>
                   /\ l # Loc(out.res.path)
                        => C20_Before(Loc(out.res.path), l))
    /\ [][C21_Visit]_vars

\* FindByUUID has answered the prefix "a", which two records match, with
\* the one the walk reaches first.
C21_Witness ==
    /\ out.op = "find" /\ out.root = Dot /\ out.target = <<"a">>
    /\ out.res.err = <<>>
    /\ out.res.path = RelPath(<<HolonMD>>)
    /\ Cardinality(C2_Candidates(fs, Dot, <<"a">>)) = 2
    /\ RecordAt(fs, CWD \o <<HolonMD>>).UUID = <<"a","b">>

--------------------------------------------------------------------------
(* C22: the order of the scans of the listing and the scope of the
   de-duplication *)

\* The scan a printed entry comes from: 1 for root/holons, 2 for root, 3
\* for the cache directory. The scan of root prints no record under
\* root/holons, the first scan having remembered the key of each.
C22_ScanOf(e) ==
    IF e.origin = Cached THEN 3
    ELSE IF e.path.names # <<>> /\ e.path.up = 0 /\ ~e.path.abs
            /\ e.path.names[1] = Holons
    THEN 1 ELSE 2

\* The scan a progress line comes from.
C22_ScanOfLabel(label) ==
    IF label = "local" THEN 1 ELSE IF label = "root" THEN 2 ELSE 3

\* The cache directory of the listing, EmptyPath when the home directory
\* is not known.
C22_CacheDir == holonCacheDir(out.home)

C22_CacheRecords ==
    IF C22_CacheDir = EmptyPath THEN {} ELSE C5_Records(fs, C22_CacheDir)

C22_LocalRecords ==
    C5_Records(fs, Join(ListRoot(out.root), Holons))
        \cup C5_Records(fs, ListRoot(out.root))

C22_EntriesOf(origin) ==
    {i \in 1..Len(out.res.entries) : out.res.entries[i].origin = origin}

\* C22: the listing prints the entries and the progress lines of the scan
\* of root/holons, then those of the scan of root, then those of the scan
\* of the cache directory; the first two scans label their entries
\* "local" and print no de-duplication key twice between them; the scan
\* of the cache directory labels its entries "cached" and prints every
\* record of the cache directory, so that an id found both locally and in
\* the cache directory has a line under each label.
C22_ScansInOrder ==
    out.op = "list" =>
        /\ \A i \in 1..Len(out.res.entries), j \in 1..Len(out.res.entries) :
              i < j => C22_ScanOf(out.res.entries[i])
                          <= C22_ScanOf(out.res.entries[j])
        /\ \A i \in 1..Len(out.res.progress), j \in 1..Len(out.res.progress) :
              i < j => C22_ScanOfLabel(out.res.progress[i].label)
                          < C22_ScanOfLabel(out.res.progress[j].label)
        /\ \A i \in 1..Len(out.res.entries) :
              out.res.entries[i].origin \in {Local, Cached}
        /\ C7_LocalKeysDiffer
        /\ Cardinality(C22_EntriesOf(Cached)) = Cardinality(C22_CacheRecords)
        /\ \A l \in C22_LocalRecords, c \in C22_CacheRecords :
              RecordAt(fs, l).UUID = RecordAt(fs, c).UUID =>
                 /\ \E i \in C22_EntriesOf(Local) :
                       out.res.entries[i].UUID = RecordAt(fs, l).UUID
                 /\ \E i \in C22_EntriesOf(Cached) :
                       out.res.entries[i].UUID = RecordAt(fs, c).UUID

\* A listing of the working directory has printed the record under
\* holons/, then the record of the working directory, both as local, then
\* the copy of the first in the cache directory as cached, with a
\* progress line for each scan.
C22_Witness ==
    /\ out.op = "list" /\ out.root = Dot /\ out.home.ok
    /\ Len(out.res.entries) = 3
    /\ out.res.entries[1].origin = Local
    /\ out.res.entries[1].UUID = <<"a","a">>
    /\ C22_ScanOf(out.res.entries[1]) = 1
    /\ out.res.entries[2].origin = Local
    /\ out.res.entries[2].UUID = <<"a","b">>
    /\ out.res.entries[3].origin = Cached
    /\ out.res.entries[3].UUID = <<"a","a">>
    /\ Len(out.res.progress) = 3

--------------------------------------------------------------------------
(* C23: the de-duplication key of the local scans *)

\* The local scan that reaches the record at l first: 1 for root/holons,
\* 2 for root.
C23_ScanOf(l) ==
    IF l \in C5_Records(fs, Join(ListRoot(out.root), Holons)) THEN 1 ELSE 2

\* The record at l is encountered before the record at m by the local
\* scans.
C23_Before(l, m) ==
    \/ C23_ScanOf(l) < C23_ScanOf(m)
    \/ C23_ScanOf(l) = C23_ScanOf(m) /\ C20_Before(l, m)

\* The path printed for the record at l.
C23_PathOf(l) ==
    relHolonDir(ListRoot(out.root), PathFrom(ListRoot(out.root), l))

C23_LocalLines(uuid) ==
    {i \in C22_EntriesOf(Local) : out.res.entries[i].UUID = uuid}

\* C23: in the local scans of the listing a record with an empty id is
\* remembered by its file path, so that every file with an empty id has
\* its own line; a record with an id is remembered by the id, so that of
\* the files with one id the first encountered has the one line of the
\* id.
C23_KeyIsIdOrPath ==
    out.op = "list" =>
        \A l \in C22_LocalRecords :
            IF RecordAt(fs, l).UUID = <<>>
            THEN \E i \in C23_LocalLines(<<>>) :
                    out.res.entries[i].path = C23_PathOf(l)
            ELSE /\ Cardinality(C23_LocalLines(RecordAt(fs, l).UUID)) = 1
                 /\ \A i \in C23_LocalLines(RecordAt(fs, l).UUID) :
                       \/ out.res.entries[i].path = C23_PathOf(l)
                       \/ \E m \in C22_LocalRecords :
                             /\ RecordAt(fs, m).UUID = RecordAt(fs, l).UUID
                             /\ C23_Before(m, l)

\* A listing of the working directory with two files of empty id has
\* printed both as local.
C23_WitnessEmptyIds ==
    /\ out.op = "list" /\ out.root = Dot
    /\ Cardinality({l \in C22_LocalRecords : RecordAt(fs, l).UUID = <<>>}) = 2
    /\ Cardinality(C23_LocalLines(<<>>)) = 2

\* A listing of the working directory with two files of the id "aa", or
\* with two files of empty id, has printed the first of the former alone
\* and both of the latter.
C23_Witness ==
    \/ C23_WitnessEmptyIds
    \/ /\ out.op = "list" /\ out.root = Dot
       /\ Cardinality({l \in C22_LocalRecords :
                          RecordAt(fs, l).UUID = <<"a","a">>}) = 2
       /\ Cardinality(C23_LocalLines(<<"a","a">>)) = 1
       /\ \A i \in C23_LocalLines(<<"a","a">>) :
             out.res.entries[i].path
                = C23_PathOf(CWD \o <<Holons, <<"a">>, HolonMD>>)

--------------------------------------------------------------------------
(* C24: the path of a printed entry *)

\* The directory a printed path names when it is read from root: up
\* times the parent of root, then names.
C24_Resolved(root, path) ==
    IF path.abs THEN path.names
    ELSE SubSeq(Loc(root), 1, Len(Loc(root)) - path.up) \o path.names

\* The records whose lines have the given origin.
C24_RecordsOf(origin) ==
    IF origin = Cached THEN C22_CacheRecords ELSE C22_LocalRecords

\* The path of entry e names, read from root, the directory of a record
\* of the origin of e.
C24_NamesItsRecord(e) ==
    \E l \in C24_RecordsOf(e.origin) :
        /\ RecordAt(fs, l).UUID = e.UUID
        /\ C24_Resolved(ListRoot(out.root), e.path) = SubSeq(l, 1, Len(l) - 1)

\* C24 as stated: every entry of the listing, local or cached, carries a
\* path relative to the requested root.
C24_EveryPathIsRelative ==
    out.op = "list" =>
        \A i \in 1..Len(out.res.entries) :
            /\ ~out.res.entries[i].path.abs
            /\ C24_NamesItsRecord(out.res.entries[i])

\* C24, amended: every entry of the listing carries the directory of its
\* record; the path is relative to the requested root for a local entry,
\* and for a cached entry when the requested root is absolute; a cached
\* entry of a listing with a relative root carries the absolute path of
\* the directory, which filepath.Rel cannot make relative.
C24_PathIsRelativeWhenRelCan ==
    out.op = "list" =>
        \A i \in 1..Len(out.res.entries) :
            /\ C24_NamesItsRecord(out.res.entries[i])
            /\ out.res.entries[i].path.abs
                  <=> /\ out.res.entries[i].origin = Cached
                      /\ ~ListRoot(out.root).abs

\* A listing of the working directory has printed holons/a for the local
\* record and the absolute path of the cache entry for its cached copy.
C24_Witness ==
    /\ out.op = "list" /\ out.root = Dot /\ Len(out.res.entries) = 3
    /\ out.res.entries[1].path
          = [abs |-> FALSE, up |-> 0, names |-> <<Holons, <<"a">> >>]
    /\ out.res.entries[3].origin = Cached
    /\ out.res.entries[3].path
          = [abs |-> TRUE, up |-> 0,
             names |-> HOME \o <<DotHolon, Cache, <<"c">> >>]

--------------------------------------------------------------------------
(* C25: the ids of the records one scan emits *)

\* The calls of onFound that carry the id uuid.
C25_EmittedWith(uuid) ==
    {i \in 1..Len(Emitted) : Emitted[i].Identity.UUID = uuid}

\* The records of the scanned tree that carry the id uuid.
C25_RecordsWith(uuid) ==
    {l \in C5_Records(fs, out.root) : RecordAt(fs, l).UUID = uuid}

\* C25 as stated: no two records a bulk scan has emitted have the same
\* id.
C25_EmittedIdsDiffer ==
    out.op \in {"scanning", "scan"} =>
        \A i \in 1..Len(Emitted), j \in 1..Len(Emitted) :
            i # j => Emitted[i].Identity.UUID # Emitted[j].Identity.UUID

\* C25, amended: no two records a bulk scan has emitted come from the
\* same file, and each carries the id of its file; the scan compares no
\* ids, and when it returns it has emitted an id as many times as the
\* tree has records with that id.
C25_EmittedFilesDiffer ==
    /\ out.op \in {"scanning", "scan"} =>
          \A i \in 1..Len(Emitted), j \in 1..Len(Emitted) :
              /\ i # j => Emitted[i].Path # Emitted[j].Path
              /\ Emitted[i].Identity = RecordAt(fs, Loc(Emitted[i].Path))
    /\ out.op = "scan" =>
          \A l \in C5_Records(fs, out.root) :
              Cardinality(C25_EmittedWith(RecordAt(fs, l).UUID))
                 = Cardinality(C25_RecordsWith(RecordAt(fs, l).UUID))

\* A scan of the working directory has emitted the id "aa" twice, for
\* the record of the working directory and for the one under holons/.
C25_Witness ==
    /\ out.op = "scan" /\ out.root = Dot
    /\ Len(Emitted) = 2
    /\ C25_EmittedWith(<<"a","a">>) = {1, 2}
    /\ Emitted[1].Path = RelPath(<<HolonMD>>)
    /\ Emitted[2].Path = RelPath(<<Holons, <<"a">>, HolonMD>>)

--------------------------------------------------------------------------
(* C26: a bulk scan runs to its end, on counters of its own *)

\* The call of ScanAllWithPaths: the counters are new and at zero.
C26_Start ==
    out.op = "none" /\ out'.op = "scanning" =>
        /\ walk'.cb.scanned = 0 /\ walk'.cb.found = 0
        /\ walk'.cb.emitted = <<>> /\ walk'.cb.progress = <<>>

\* One visit of the walk: whatever fn returns, the entries that were to
\* be visited after this one still are.
C26_Visit ==
    out.op = "scanning" /\ walk.todo # <<>> /\ out'.op = "scanning" =>
        /\ Len(walk'.todo) >= Len(walk.todo) - 1
        /\ SubSeq(walk'.todo, Len(walk'.todo) - Len(walk.todo) + 2,
                  Len(walk'.todo)) = Tail(walk.todo)

\* The return of ScanAllWithPaths: the walk has no entry left, and the
\* final report is made after every call of onFound, with the counters
\* of this scan.
C26_Return ==
    out.op = "scanning" /\ out'.op = "scan" =>
        /\ walk.todo = <<>>
        /\ out'.res.err = ""
        /\ out'.res.cb.emitted = walk.cb.emitted
        /\ out'.res.cb.scanned = walk.cb.scanned
        /\ out'.res.cb.found = walk.cb.found
        /\ out'.res.cb.progress =
              IF out.onProgress
              THEN Append(walk.cb.progress,
                          [ScannedFiles |-> walk.cb.scanned,
                           HolonsFound |-> walk.cb.found])
              ELSE walk.cb.progress

\* The root of the scan of the listing that prints the progress label.
C26_RootOf(label) ==
    IF label = "local" THEN Join(ListRoot(out.root), Holons)
    ELSE IF label = "root" THEN ListRoot(out.root) ELSE C22_CacheDir

\* A bound on the calls of fn the entry e of the walk stands for: one for
\* an entry handed over with an error, and otherwise two for the entry
\* and for each place of the tree below it.
C26_Weight(e) ==
    IF e.err THEN 1
    ELSE 2 * (1 + Cardinality({l \in DOMAIN fs :
                                  /\ Len(l) > Len(Loc(e.path))
                                  /\ SubSeq(l, 1, Len(Loc(e.path)))
                                        = Loc(e.path)}))

\* A bound on the calls of fn the walk has still to make.
RECURSIVE C26_Left(_, _)
C26_Left(todo, i) ==
    IF i > Len(todo) THEN 0
    ELSE C26_Weight(todo[i]) + C26_Left(todo, i + 1)

\* One visit of the walk brings the walk nearer to its end.
C26_Progress ==
    out.op = "scanning" /\ walk.todo # <<>> /\ out'.op = "scanning" =>
        C26_Left(walk'.todo, 1) < C26_Left(walk.todo, 1)

\* C26: a bulk scan starts with its counters at zero; each visit leaves
\* the rest of the walk to be made, whatever fn returns, and brings the
\* walk nearer to its end, so that over a finite tree the walk ends; the
\* scan returns, without error, when no entry is left and not before: it
\* has then counted every file of the tree outside the directories it
\* skips, and has made its final report after the last call of onFound.
\* Each scan of a listing reports the files of its own tree alone.
C26_ScanRunsToItsEnd ==
    /\ [](/\ out.op = "scanning" /\ walk.todo = <<>> => ENABLED ScanReturn
          /\ out.op = "scan" =>
                out.res.cb.scanned = Cardinality(C17_Counted(fs, out.root))
          /\ out.op = "list" =>
                \A i \in 1..Len(out.res.progress) :
                    out.res.progress[i].scanned =
                       Cardinality(C17_Counted(
                           fs, C26_RootOf(out.res.progress[i].label))))
    /\ [][C26_Start /\ C26_Visit /\ C26_Progress /\ C26_Return]_vars

\* A scan of the working directory has returned having visited its three
\* files, two of them records, and made its one report at the end.
C26_Witness ==
    /\ out.op = "scan" /\ out.root = Dot /\ out.onProgress /\ out.every = 0
    /\ Len(Emitted) = 2
    /\ Emitted[2].Path = RelPath(<<Holons, <<"a">>, HolonMD>>)
    /\ Reports = <<[ScannedFiles |-> 3, HolonsFound |-> 2]>>

--------------------------------------------------------------------------
(* C27: a scan whose root has a hidden name *)

\* The name of the root of the scan starts with "." and is neither "."
\* nor ".holon".
C27_RootIsHidden ==
    /\ Base(out.root)[1] = "."
    /\ Base(out.root) # <<".">> /\ Base(out.root) # DotHolon

\* C27: the bulk scan applies its test of hidden names to the root too.
\* A scan whose root is named ".." or ".secret" visits the root and
\* nothing else: it emits no record, counts no file, makes the final
\* report {0, 0} and no other, and returns no error, whatever the
\* directory holds.
C27_HiddenRootIsSkipped ==
    /\ out.op = "scanning" /\ C27_RootIsHidden =>
          /\ walk.todo \in {<<>>, <<[path |-> out.root,
                                    err |-> ~Exists(fs, Loc(out.root))]>>}
          /\ walk.cb.scanned = 0 /\ walk.cb.found = 0
          /\ walk.cb.emitted = <<>> /\ walk.cb.progress = <<>>
    /\ out.op = "scan" /\ C27_RootIsHidden =>
          /\ out.res.err = ""
          /\ out.res.cb.emitted = <<>>
          /\ out.res.cb.scanned = 0 /\ out.res.cb.found = 0
          /\ out.res.cb.progress =
                IF out.onProgress
                THEN <<[ScannedFiles |-> 0, HolonsFound |-> 0]>>
                ELSE <<>>

\* A scan of ".." with interval 1 has returned nothing and reported
\* {0, 0} once, while the working directory below it holds two records.
C27_Witness ==
    /\ out.op = "scan" /\ out.root = RelPath(<<DotDot>>)
    /\ out.onProgress /\ out.every = 1
    /\ out.res.err = "" /\ out.res.cb.emitted = <<>>
    /\ out.res.cb.progress = <<[ScannedFiles |-> 0, HolonsFound |-> 0]>>
    /\ Cardinality(C5_Records(fs, Dot)) = 2

--------------------------------------------------------------------------
(* C28: CreateIdentity over a record that is there *)

\* The earlier successful Creates whose file_path a later successful
\* Create has written again.
C28_Replaced ==
    IF created = NoCall THEN {}
    ELSE {k \in 1..Len(created.earlier) :
            \/ Loc(created.earlier[k].FilePath) = Loc(created.FilePath)
            \/ \E j \in (k + 1)..Len(created.earlier) :
                  Loc(created.earlier[j].FilePath)
                     = Loc(created.earlier[k].FilePath)}

\* The files of the filesystem that decode to a record with the id uuid.
C28_FilesOf(uuid) ==
    {l \in DOMAIN fs : IsRecordFile(fs, l) /\ RecordAt(fs, l).UUID = uuid}

\* A successful CreateIdentity: the file at file_path is the rendering of
\* the new record, whatever was there, and no other place has changed.
C28_Create ==
    issued' = issued + 1 /\ out'.res.code = "OK" =>
        /\ C28_FilesOf(out'.res.Identity.Uuid) = {}
        /\ fs'[Loc(out'.res.FilePath)].kind = "file"
        /\ ParseFrontmatter(fs'[Loc(out'.res.FilePath)].data).id.UUID
              = out'.res.Identity.Uuid
        /\ \A l \in DOMAIN fs :
              l # Loc(out'.res.FilePath) => l \in DOMAIN fs' /\ fs'[l] = fs[l]

\* C28: a successful CreateIdentity replaces the HOLON.md its output path
\* holds, whether the path was asked for or derived from the names.  The
\* file holds the id of the last Create to the path; the id an earlier
\* Create to the path returned is in no file, ShowIdentity answers
\* NotFound for it and ListIdentities has no entry with it.
C28_LastCreateWins ==
    /\ [](\A k \in C28_Replaced :
            /\ C28_FilesOf(created.earlier[k].Uuid) = {}
            /\ IsRecordFile(fs, Loc(created.earlier[k].FilePath))
            /\ out.op = "show" /\ out.uuid = created.earlier[k].Uuid
                  => out.res.code = "NotFound"
            /\ out.op = "listIdentities" =>
                  \A i \in 1..Len(out.res.Entries) :
                      out.res.Entries[i].Identity.Uuid
                         # created.earlier[k].Uuid)
    /\ [](created # NoCall =>
             C28_FilesOf(created.Identity.Uuid) = {Loc(created.FilePath)})
    /\ [][C28_Create]_vars

\* Two Creates with the same names and no output_dir have succeeded, and
\* ShowIdentity has answered NotFound for the id of the first while the
\* file holds the id of the second.
C28_Witness ==
    /\ out.op = "show" /\ created # NoCall /\ C28_Replaced = {1}
    /\ out.uuid = created.earlier[1].Uuid
    /\ out.uuid = NewUUID(1)
    /\ out.res.code = "NotFound"
    /\ created.FilePath
          = RelPath(<<DotHolon, <<"a","b","-","c">>, HolonMD>>)
    /\ RecordAt(fs, Loc(created.FilePath)).UUID = NewUUID(2)

--------------------------------------------------------------------------
(* C29: an identity created in the default directory, then listed *)

\* The last successful Create named no output_dir: its file is
\* .holon/<name>/HOLON.md in the working directory.
C29_InDefaultDir ==
    /\ created # NoCall
    /\ ~created.FilePath.abs
    /\ Len(created.FilePath.names) = 3
    /\ created.FilePath.names[1] = DotHolon
    /\ created.FilePath.names[3] = HolonMD

\* A successful Create with no output_dir writes under .holon/, in the
\* directory named after given_name and family_name.
C29_Create ==
    /\ issued' = issued + 1 /\ out'.res.code = "OK"
    /\ out'.req.OutputDir = EmptyPath
    => /\ C29_InDefaultDir'
       /\ created'.FilePath.names[2] =
             ReplaceAll(ToLower(out'.req.GivenName \o <<"-">>
                                \o TrimSuffix(out'.req.FamilyName, <<"?">>)),
                        " ", "-")
       /\ IsRecordFile(fs', Loc(created'.FilePath))

\* ListIdentities of the working directory has an entry with the id of
\* the last identity created.
C29_Listed ==
    \E i \in 1..Len(out.res.Entries) :
        out.res.Entries[i].Identity.Uuid = created.Identity.Uuid

\* C29: whatever the non-blank given_name, family_name, motto and
\* composer, a successful Create with no output_dir writes the record
\* under .holon/<given>-<family> in the working directory, and a List of
\* the working directory (root_dir blank) that follows has an entry with
\* the created id.
C29_CreatedIsListed ==
    /\ [](out.op = "listIdentities" /\ ListRootDir(out.rootDir) = Dot
          /\ C29_InDefaultDir
          => out.res.code = "OK" /\ C29_Listed)
    /\ [][C29_Create]_vars

--------------------------------------------------------------------------
(* C30: the empty target *)

\* The records a resolution from root may answer with, whatever their
\* id: the HOLON.md files below root that can be reached, read and
\* decoded.
C30_Decodable(root) ==
    {l \in PlacesUnder(fs, root) :
        IsRecordFile(fs, l) /\ Reachable(fs, root, l)}

\* The place l is the first of the set in the order of the walk.
C30_First(l, places) ==
    l \in places /\ \A m \in places : m # l => C20_Before(l, m)

\* Every character of s is white space.
C30_Blank(s) == \A i \in 1..Len(s) : s[i] \in {" ", "\t", NL}

\* C30: FindByUUID with the empty target answers with the first HOLON.md
\* of the walk that decodes, whatever its id, and fails only when the
\* tree has none; RunShow hands its argument to FindByUUID as it is, and
\* with the empty argument prints that first file; ShowIdentity answers
\* InvalidArgument for an empty or blank id, whatever the tree holds.  A
\* record with an empty id is never the answer for a target that is not
\* empty.
C30_EmptyTargetTakesTheFirst ==
    /\ out.op = "find" /\ out.target = <<>> =>
          IF C30_Decodable(out.root) = {}
          THEN out.res.err # <<>> /\ out.res.path = EmptyPath
          ELSE /\ out.res.err = <<>>
               /\ C30_First(Loc(out.res.path), C30_Decodable(out.root))
    /\ out.op = "runShow" /\ out.target = <<>> =>
          IF C30_Decodable(Dot) = {}
          THEN out.res.err # <<>> /\ out.res.printed = <<>>
          ELSE /\ out.res.err = <<>>
               /\ \E l \in C30_Decodable(Dot) :
                     /\ C30_First(l, C30_Decodable(Dot))
                     /\ out.res.printed = fs[l].data \o <<NL>>
    /\ out.op = "show" /\ C30_Blank(out.uuid) =>
          out.res.code = "InvalidArgument"
    /\ out.op = "find" /\ out.target # <<>> /\ out.res.err = <<>> =>
          RecordAt(fs, Loc(out.res.path)).UUID # <<>>
    /\ out.op = "runShow" /\ out.target # <<>> /\ out.res.err = <<>> =>
          \A l \in C30_Decodable(Dot) :
              RecordAt(fs, l).UUID = <<>> =>
                 out.res.printed # fs[l].data \o <<NL>>
    /\ out.op = "show" /\ out.res.code = "OK" =>
          out.res.Identity.Uuid # <<>>

\* RunShow with the empty argument has printed the HOLON.md of the
\* working directory, whose id is "ab", while the record under holons/
\* has the id "aa".
C30_Witness ==
    /\ out.op = "runShow" /\ out.target = <<>> /\ out.res.err = <<>>
    /\ C30_Decodable(Dot) = {CWD \o <<HolonMD>>,
                             CWD \o <<Holons, <<"a">>, HolonMD>>}
    /\ RecordAt(fs, CWD \o <<HolonMD>>).UUID = <<"a","b">>
    /\ RecordAt(fs, CWD \o <<Holons, <<"a">>, HolonMD>>).UUID = <<"a","a">>
    /\ out.res.printed = fs[CWD \o <<HolonMD>>].data \o <<NL>>

====
